---- MODULE Spec2Model ----
(***************************************************************************)
(* Model of the usage/cost analytics core of ocmonitor                     *)
(* (src/misc/ocmonitor-share/ocmonitor): SessionAnalyzer and TimeUtils.    *)
(*                                                                         *)
(* Every public operation is one action that records its arguments and     *)
(* its return value in `ret`.  The inputs (the session directory on disk,  *)
(* the in-memory session list, the pricing table) are drawn by the initial *)
(* predicate of the specification that exercises the operation.            *)
(***************************************************************************)
EXTENDS Integers, Sequences, FiniteSets, Bags, TLC

VARIABLES
    session_dir,   \* the session directory on disk: [exists, files: file id -> file]
    now,           \* the wall clock, in seconds (time.time())
    sessions,      \* the in-memory list of SessionData handed to the analyzer
    pricing_data,  \* SessionAnalyzer.pricing_data: the set of priced model ids
    ret,           \* the last call: [op, ..arguments.., result], or NoCall
    last,          \* the call before it whose result the caller kept, or NoCall
    calls          \* the calls in progress (position and local variables), by caller

vars == <<session_dir, now, sessions, pricing_data, ret, last, calls>>

\* Python's None.  An optional value is the empty tuple or a one-element tuple.
None == <<>>
Some(x) == <<x>>
Val(o) == o[1]

\* `ret` before any call.
NoCall == [op |-> "none"]

\* The analyzer is synchronous: a call is made when no result is pending,
\* and the caller takes the result before the next call.
Return ==
    /\ ret # NoCall
    /\ ret' = NoCall
    /\ UNCHANGED <<session_dir, now, sessions, pricing_data, last, calls>>

(***************************************************************************)
(* Generic helpers                                                         *)
(***************************************************************************)
RECURSIVE GCD(_, _)
GCD(a, b) == IF b = 0 THEN a ELSE GCD(b, a % b)

\* A float result is modelled as the exact fraction in lowest terms.
Frac(n, d) == LET g == GCD(n, d) IN [num |-> n \div g, den |-> d \div g]

Zero == [num |-> 0, den |-> 1]

SetMin(S) == CHOOSE x \in S : \A y \in S : x <= y

SetMax(S) == CHOOSE x \in S : \A y \in S : x >= y

RECURSIVE SetToSortedSeq(_)
SetToSortedSeq(S) ==
    IF S = {} THEN <<>>
    ELSE LET m == SetMin(S) IN <<m>> \o SetToSortedSeq(S \ {m})

(***************************************************************************)
(* Dates and datetimes (datetime.date, datetime.datetime, timedelta)       *)
(*                                                                         *)
(* A date is its proleptic Gregorian ordinal (date.toordinal()); adding a  *)
(* timedelta of n days adds n.  A datetime is the number of hours since    *)
(* the start of ordinal 0.                                                 *)
(***************************************************************************)
is_leap(y) == y % 4 = 0 /\ (y % 100 # 0 \/ y % 400 = 0)

days_in_month(y, m) ==
    IF m = 2 THEN (IF is_leap(y) THEN 29 ELSE 28)
    ELSE IF m \in {4, 6, 9, 11} THEN 30 ELSE 31

days_before_year(y) ==
    (y - 1) * 365 + (y - 1) \div 4 - (y - 1) \div 100 + (y - 1) \div 400

RECURSIVE days_before_month(_, _)
days_before_month(y, m) ==
    IF m = 1 THEN 0 ELSE days_before_month(y, m - 1) + days_in_month(y, m - 1)

\* date(y, m, d).toordinal()
ymd2ord(y, m, d) == days_before_year(y) + days_before_month(y, m) + d

\* date.year: the year whose days include the ordinal.
RECURSIVE year_from(_, _)
year_from(ord, y) ==
    IF ord <= days_before_year(y + 1) THEN y ELSE year_from(ord, y + 1)

year_of(ord) == year_from(ord, (ord - 1) \div 366 + 1)

\* date.month
RECURSIVE month_from(_, _, _)
month_from(ord, y, m) ==
    IF ord <= days_before_year(y) + days_before_month(y, m) + days_in_month(y, m)
    THEN m ELSE month_from(ord, y, m + 1)

month_of(ord) == month_from(ord, year_of(ord), 1)

\* date.weekday(): Monday is 0, Sunday is 6.
weekday(ord) == (ord + 6) % 7

\* datetime(date, hour) and datetime.date()
datetime(ord, hour) == ord * 24 + hour
date_of(dt) == dt \div 24

(***************************************************************************)
(* TimeUtils (utils/time_utils.py)                                         *)
(***************************************************************************)
\* Mutant: the day difference used without the modulo.
get_custom_week_start_nomod(target_date, week_start_day) ==
    target_date - (weekday(target_date) - week_start_day)

get_custom_week_start(target_date, week_start_day) ==
    LET current_weekday == weekday(target_date)
        days_back == (current_weekday - week_start_day) % 7
        week_start == target_date - days_back
    IN  week_start

get_custom_week_range(target_date, week_start_day) ==
    LET week_start == get_custom_week_start(target_date, week_start_day)
        week_end == week_start + 6
    IN  <<week_start, week_end>>

\* Mutant: the upper bound made exclusive.
date_in_range_exclusive_end(check_date, start_date, end_date) ==
    IF start_date # None /\ check_date < Val(start_date) THEN FALSE
    ELSE IF end_date # None /\ check_date >= Val(end_date) THEN FALSE
    ELSE TRUE

date_in_range(check_date, start_date, end_date) ==
    IF start_date # None /\ check_date < Val(start_date) THEN FALSE
    ELSE IF end_date # None /\ check_date > Val(end_date) THEN FALSE
    ELSE TRUE

(***************************************************************************)
(* Burn-rate meter: SessionAnalyzer.calculate_burn_rate                    *)
(***************************************************************************)
\* Bounds of the burn-rate inputs.
MaxTick == 4
TimeStep == 30
Instants == {k * TimeStep : k \in 0..MaxTick}
FileIds == {1, 2, 3}
TokenTotals == {0, 2}
Timeframes == {0, 1, 5}

\* A file on disk: its st_mtime and the tokens.total of the interaction it
\* parses to (None when parse_interaction_file returns None).
DiskFiles == [mtime : Instants, tokens : {None} \cup {Some(n) : n \in TokenTotals}]

\* A session path: missing, or a directory holding some JSON files.
Directories ==
    {[exists |-> FALSE, files |-> <<>>]}
    \cup {[exists |-> TRUE, files |-> fs] :
            fs \in UNION {[ids -> DiskFiles] : ids \in SUBSET FileIds}}

\* FileProcessor.find_json_files: the JSON files of the directory, in name order.
find_json_files(dir) ==
    LET ids == SetToSortedSeq(DOMAIN dir.files)
    IN  [i \in 1..Len(ids) |-> dir.files[ids[i]]]

\* Mutant: the window test made strict, so a file exactly timeframe_seconds old
\* is left out.
in_window_strict(file, t, timeframe_seconds) == (t - file.mtime) < timeframe_seconds

in_window(file, t, timeframe_seconds) == (t - file.mtime) <= timeframe_seconds

RECURSIVE recent_total_tokens(_)
recent_total_tokens(recent_files) ==
    IF recent_files = <<>> THEN 0
    ELSE LET f == Head(recent_files)
         IN  (IF f.tokens # None THEN Val(f.tokens) ELSE 0)
             + recent_total_tokens(Tail(recent_files))

oldest_time(recent_files) ==
    SetMin({recent_files[i].mtime : i \in DOMAIN recent_files})

\* Mutant: the span is tested for being non-zero and taken by its size, so
\* files modified after `now` give a rate.
calculate_burn_rate_any_span(dir, t, timeframe_minutes) ==
    IF ~dir.exists THEN Zero
    ELSE
    LET json_files == find_json_files(dir)
        recent_files ==
            SelectSeq(json_files, LAMBDA f : in_window(f, t, timeframe_minutes * 60))
        span == IF recent_files = <<>> THEN 0 ELSE t - oldest_time(recent_files)
    IN  IF Len(recent_files) > 1 /\ span # 0
        THEN Frac(recent_total_tokens(recent_files) * 60,
                  IF span > 0 THEN span ELSE 0 - span)
        ELSE Zero

\* Mutant: a rate is computed from a single in-window file
\* (len(recent_files) > 0 in place of len(recent_files) > 1).
calculate_burn_rate_single(dir, t, timeframe_minutes) ==
    IF ~dir.exists THEN Zero
    ELSE
    LET json_files == find_json_files(dir)
        recent_files ==
            SelectSeq(json_files, LAMBDA f : in_window(f, t, timeframe_minutes * 60))
    IN  IF recent_files # <<>> /\ t - oldest_time(recent_files) > 0
        THEN Frac(recent_total_tokens(recent_files) * 60, t - oldest_time(recent_files))
        ELSE Zero

calculate_burn_rate(dir, t, timeframe_minutes) ==
    IF ~dir.exists THEN Zero
    ELSE
    LET json_files == find_json_files(dir)
        timeframe_seconds == timeframe_minutes * 60
        recent_files ==
            SelectSeq(json_files, LAMBDA f : in_window(f, t, timeframe_seconds))
        total_tokens == recent_total_tokens(recent_files)
    IN  IF json_files = <<>> THEN Zero
        ELSE IF recent_files = <<>> THEN Zero
        ELSE IF Len(recent_files) > 1
                /\ t - oldest_time(recent_files) > 0
             THEN Frac(total_tokens * 60, t - oldest_time(recent_files))
             ELSE Zero

CalculateBurnRate(timeframe_minutes) ==
    /\ ret = NoCall
    /\ ret' = [op |-> "calculate_burn_rate",
               now |-> now,
               timeframe_minutes |-> timeframe_minutes,
               result |-> calculate_burn_rate(session_dir, now, timeframe_minutes)]
    /\ UNCHANGED <<session_dir, now, sessions, pricing_data, last, calls>>

\* The wall clock advances between calls.
Tick ==
    /\ now + TimeStep \in Instants
    /\ now' = now + TimeStep
    /\ UNCHANGED <<session_dir, sessions, pricing_data, ret, last, calls>>

InitBurn ==
    /\ session_dir \in Directories
    /\ now \in Instants
    /\ sessions = <<>>
    /\ pricing_data = <<>>
    /\ ret = NoCall
    /\ last = NoCall
    /\ calls = <<>>

NextBurn ==
    \/ \E tf \in Timeframes : CalculateBurnRate(tf)
    \/ Tick
    \/ Return

SpecBurn == InitBurn /\ [][NextBurn]_vars

(***************************************************************************)
(* Burn-rate claims.  The expected values are stated over the directory    *)
(* as a set of files, independently of the scan.                           *)
(***************************************************************************)
BurnCalled == ret.op = "calculate_burn_rate"

\* The ids of the files whose modification time is within the window of the call.
InWindowIds ==
    {id \in DOMAIN session_dir.files :
        session_dir.files[id].mtime >= ret.now - 60 * ret.timeframe_minutes}

RECURSIVE TokensOfIds(_)
TokensOfIds(ids) ==
    IF ids = {} THEN 0
    ELSE LET id == CHOOSE x \in ids : TRUE
             tk == session_dir.files[id].tokens
         IN  (IF tk = None THEN 0 ELSE Val(tk)) + TokensOfIds(ids \ {id})

\* Seconds from the oldest in-window modification time to the `now` of the call.
WindowSpan ==
    ret.now - SetMin({session_dir.files[id].mtime : id \in InWindowIds})

\* C1: with fewer than two in-window files (none, or exactly one) the burn
\* rate is exactly 0.0, whatever the token counts of the files are.
C1_FewerThanTwoGivesZero ==
    (BurnCalled /\ Cardinality(InWindowIds) < 2) => ret.result = Zero

C1_Witness ==
    /\ BurnCalled
    /\ Cardinality(InWindowIds) = 1
    /\ TokensOfIds(InWindowIds) > 0
    /\ WindowSpan > 0
    /\ Cardinality(DOMAIN session_dir.files) > 1
    /\ ret.result = Zero

\* C2 as stated: with two or more in-window files the result is the in-window
\* token sum divided by the minutes from the oldest in-window modification
\* time to now (result * span_seconds = tokens * 60).
C2_Original ==
    (BurnCalled /\ Cardinality(InWindowIds) >= 2) =>
        ret.result.num * WindowSpan = TokensOfIds(InWindowIds) * 60 * ret.result.den

\* C2 amended: with two or more in-window files, the result is the in-window
\* token sum divided by the minutes from the oldest in-window modification
\* time to now when that time is strictly earlier than now, and 0.0 when it
\* is not; files older than the window contribute neither tokens nor the
\* oldest-time reference.
C2_RateOverWindow ==
    (BurnCalled /\ Cardinality(InWindowIds) >= 2) =>
        IF WindowSpan > 0
        THEN ret.result = Frac(TokensOfIds(InWindowIds) * 60, WindowSpan)
        ELSE ret.result = Zero

\* Two in-window files, one older file with tokens outside the window.
C2_Witness ==
    /\ BurnCalled
    /\ Cardinality(InWindowIds) = 2
    /\ \E id \in DOMAIN session_dir.files \ InWindowIds :
            /\ session_dir.files[id].tokens # None
            /\ Val(session_dir.files[id].tokens) > 0
    /\ TokensOfIds(InWindowIds) > 0
    /\ WindowSpan > 0
    /\ ret.result # Zero

(***************************************************************************)
(* Token and cost model, session data (models/session.py, config.py)       *)
(***************************************************************************)
TokenUsage(i, o, cw, cr) ==
    [input |-> i, output |-> o, cache_write |-> cw, cache_read |-> cr]

\* TokenUsage.total
total(tokens) ==
    tokens.input + tokens.output + tokens.cache_write + tokens.cache_read

\* Combining two TokenUsage values sums each field.
add_tokens(a, b) ==
    TokenUsage(a.input + b.input, a.output + b.output,
               a.cache_write + b.cache_write, a.cache_read + b.cache_read)

\* An interaction file of a session.  time_data is None or
\* Some([created, completed, duration_ms]), each of the three optional.
InteractionFile(name, model, tokens, time_data) ==
    [file_name |-> name, model_id |-> model, tokens |-> tokens,
     time_data |-> time_data]

TimeData(created, completed, duration_ms) ==
    Some([created |-> created, completed |-> completed, duration_ms |-> duration_ms])

\* SessionData.interaction_count
interaction_count(session) == Len(session.files)

\* SessionData.total_tokens: the field-wise sum over the files.
RECURSIVE sum_tokens(_)
sum_tokens(files) ==
    IF files = <<>> THEN TokenUsage(0, 0, 0, 0)
    ELSE add_tokens(Head(files).tokens, sum_tokens(Tail(files)))

total_tokens(session) == sum_tokens(session.files)

\* SessionData.models_used: the distinct non-empty model ids of the files,
\* listed in order of first use.
RECURSIVE distinct_models(_, _)
distinct_models(files, seen) ==
    IF files = <<>> THEN <<>>
    ELSE LET m == Head(files).model_id
         IN  IF m = "" \/ m \in seen
             THEN distinct_models(Tail(files), seen)
             ELSE <<m>> \o distinct_models(Tail(files), seen \cup {m})

models_used(session) == distinct_models(session.files, {})

\* The `created` timestamps of the files that have one.
created_times(session) ==
    {Val(Val(session.files[i].time_data).created) :
        i \in {j \in DOMAIN session.files :
                /\ session.files[j].time_data # None
                /\ Val(session.files[j].time_data).created # None}}

\* SessionData.start_time: the earliest non-null `created`, or None.
start_time(session) ==
    IF created_times(session) = {} THEN None
    ELSE Some(SetMin(created_times(session)))

\* The `completed` timestamps of the files that have one.
completed_times(session) ==
    {Val(Val(session.files[i].time_data).completed) :
        i \in {j \in DOMAIN session.files :
                /\ session.files[j].time_data # None
                /\ Val(session.files[j].time_data).completed # None}}

\* SessionData.end_time: the latest non-null `completed`, or None.
end_time(session) ==
    IF completed_times(session) = {} THEN None
    ELSE Some(SetMax(completed_times(session)))

\* SessionData.duration_ms: end_time - start_time in milliseconds (a datetime
\* counts hours), or None.
duration_ms(session) ==
    IF start_time(session) = None \/ end_time(session) = None THEN None
    ELSE Some((Val(end_time(session)) - Val(start_time(session))) * 3600000)

\* SessionData.total_processing_time_ms: the sum of the files' duration_ms.
RECURSIVE sum_durations(_)
sum_durations(files) ==
    IF files = <<>> THEN 0
    ELSE (IF Head(files).time_data # None
             /\ Val(Head(files).time_data).duration_ms # None
          THEN Val(Val(Head(files).time_data).duration_ms) ELSE 0)
         + sum_durations(Tail(files))

total_processing_time_ms(session) == sum_durations(session.files)

\* Cost of one TokenUsage under one ModelPricing: sum of count * rate.
cost_of(tokens, pricing) ==
    tokens.input * pricing.input + tokens.output * pricing.output
    + tokens.cache_write * pricing.cache_write
    + tokens.cache_read * pricing.cache_read

\* SessionData.calculate_total_cost: a model without a pricing entry costs zero.
RECURSIVE files_cost(_, _)
files_cost(files, pricing) ==
    IF files = <<>> THEN 0
    ELSE LET f == Head(files)
         IN  (IF f.model_id \in DOMAIN pricing
              THEN cost_of(f.tokens, pricing[f.model_id]) ELSE 0)
             + files_cost(Tail(files), pricing)

calculate_total_cost(session, pricing) == files_cost(session.files, pricing)

(***************************************************************************)
(* Health validator: SessionAnalyzer.validate_session_health               *)
(***************************************************************************)
HighCostThreshold == 50
LongInteractionMs == 300000

\* Mutant: the "unknown" model id is reported like any other unpriced model.
unknown_models_of_all(session, pricing) ==
    SelectSeq(models_used(session), LAMBDA model : model \notin DOMAIN pricing)

\* Line 361: the models used that have no pricing entry, "unknown" excepted.
unknown_models_of(session, pricing) ==
    SelectSeq(models_used(session),
              LAMBDA model : model \notin DOMAIN pricing /\ model # "unknown")

\* Mutant: the duration threshold made inclusive.
is_long_inclusive(file) ==
    /\ file.time_data # None
    /\ Val(file.time_data).duration_ms # None
    /\ Val(Val(file.time_data).duration_ms) # 0
    /\ Val(Val(file.time_data).duration_ms) >= LongInteractionMs

\* Line 373: time data present, duration present and non-zero, above 5 minutes.
is_long(file) ==
    /\ file.time_data # None
    /\ Val(file.time_data).duration_ms # None
    /\ Val(Val(file.time_data).duration_ms) # 0
    /\ Val(Val(file.time_data).duration_ms) > LongInteractionMs

\* Mutant: the cost threshold made inclusive.
is_high_cost_inclusive(total_cost) == total_cost >= HighCostThreshold

\* Line 367: the session cost is above the threshold.
is_high_cost(total_cost) == total_cost > HighCostThreshold

\* Mutant: a high session cost is recorded as a blocking issue.
health_issues_cost_blocking(session, pricing) ==
    IF calculate_total_cost(session, pricing) > HighCostThreshold
    THEN <<[rule |-> "high_cost"]>> ELSE <<>>

\* Line 347: issues starts empty, and no rule appends to it.
health_issues(session, pricing) == <<>>

\* Mutant: a rule is skipped once an earlier rule has appended its warning.
Append1_first_only(list, fires, entry) ==
    IF fires /\ list = <<>> THEN Append(list, entry) ELSE list

\* The list a rule appends to, when the rule fires.
Append1(list, fires, entry) == IF fires THEN Append(list, entry) ELSE list

validate_session_health(session, pricing) ==
    LET issues == health_issues(session, pricing)
        empty_interactions ==
            Len(SelectSeq(session.files, LAMBDA file : total(file.tokens) = 0))
        missing_time ==
            Len(SelectSeq(session.files, LAMBDA file : file.time_data = None))
        unknown_models == unknown_models_of(session, pricing)
        total_cost == calculate_total_cost(session, pricing)
        long_interactions ==
            [i \in 1..Len(SelectSeq(session.files, is_long)) |->
                SelectSeq(session.files, is_long)[i].file_name]
        w1 == Append1(<<>>, empty_interactions > 0,
                      [rule |-> "empty_interactions", count |-> empty_interactions])
        w2 == Append1(w1, missing_time > 0,
                      [rule |-> "missing_time_data", count |-> missing_time])
        w3 == Append1(w2, unknown_models # <<>>,
                      [rule |-> "unknown_models", models |-> unknown_models])
        w4 == Append1(w3, is_high_cost(total_cost),
                      [rule |-> "high_cost", cost |-> total_cost])
        warnings == Append1(w4, long_interactions # <<>>,
                      [rule |-> "long_interactions",
                       count |-> Len(long_interactions)])
    IN  [healthy |-> Len(issues) = 0,
         issues |-> issues,
         warnings |-> warnings,
         stats |-> [total_interactions |-> interaction_count(session),
                    empty_interactions |-> empty_interactions,
                    missing_time_data |-> missing_time,
                    unknown_models |-> Len(unknown_models),
                    total_cost |-> total_cost]]

ValidateSessionHealth(i) ==
    /\ ret = NoCall
    /\ ret' = [op |-> "validate_session_health",
               session |-> i,
               result |-> validate_session_health(sessions[i], pricing_data)]
    /\ UNCHANGED <<session_dir, now, sessions, pricing_data, last, calls>>

(***************************************************************************)
(* SessionAnalyzer.get_session_statistics                                  *)
(***************************************************************************)
\* SessionData.get_model_breakdown: for each model of the session, the
\* count, tokens and cost of the files that used it.
get_model_breakdown(session, pricing) ==
    LET used == {models_used(session)[i] : i \in DOMAIN models_used(session)}
    IN  [model \in used |->
            LET files == SelectSeq(session.files, LAMBDA f : f.model_id = model)
            IN  [files |-> Len(files),
                 tokens |-> sum_tokens(files),
                 cost |-> files_cost(files, pricing)]]

\* The statistics of a session.  time_analysis, a dict that stays {} or is
\* filled, is None or Some(record); the Decimal average is a fraction.
session_statistics(session, pricing) ==
    LET model_breakdown == get_model_breakdown(session, pricing)
        session_tokens == total_tokens(session)
        total_cost == calculate_total_cost(session, pricing)
        avg_tokens_per_interaction ==
            IF interaction_count(session) > 0
            THEN total(session_tokens) \div interaction_count(session) ELSE 0
        avg_cost_per_interaction ==
            IF interaction_count(session) > 0
            THEN Frac(total_cost, interaction_count(session)) ELSE Zero
        time_stats ==
            IF start_time(session) # None /\ end_time(session) # None
            THEN Some([start_time |-> start_time(session),
                       end_time |-> end_time(session),
                       duration_ms |-> duration_ms(session),
                       total_processing_time_ms |-> total_processing_time_ms(session),
                       avg_processing_time_ms |->
                           IF interaction_count(session) > 0
                           THEN total_processing_time_ms(session)
                                    \div interaction_count(session)
                           ELSE 0])
            ELSE None
    IN  [raised |-> FALSE,
         session_id |-> session.session_id,
         interaction_count |-> interaction_count(session),
         models_used |-> models_used(session),
         total_tokens |-> session_tokens,
         total_cost |-> total_cost,
         model_breakdown |-> model_breakdown,
         averages |-> [tokens_per_interaction |-> avg_tokens_per_interaction,
                       cost_per_interaction |-> avg_cost_per_interaction],
         time_analysis |-> time_stats]

\* Mutant: the averages divide by interaction_count without testing it, so
\* a session without files ends in ZeroDivisionError.
get_session_statistics_unguarded(session, pricing) ==
    IF interaction_count(session) = 0 THEN [raised |-> TRUE]
    ELSE session_statistics(session, pricing)

get_session_statistics(session, pricing) == session_statistics(session, pricing)

GetSessionStatistics(i) ==
    /\ ret = NoCall
    /\ ret' = [op |-> "get_session_statistics",
               session |-> i,
               result |-> get_session_statistics(sessions[i], pricing_data)]
    /\ UNCHANGED <<session_dir, now, sessions, pricing_data, last, calls>>

\* Inputs of the health validator.
MaxHealthFiles == 2
ModelIds == {"unknown", "gpt", "claude"}
HealthTokens == {TokenUsage(0, 0, 0, 0), TokenUsage(2, 0, 0, 0), TokenUsage(2, 1, 0, 0)}
HealthDurations == {None, Some(LongInteractionMs), Some(LongInteractionMs + 1)}
HealthTimeData == {None} \cup {TimeData(None, None, d) : d \in HealthDurations}
Pricings == {[input |-> 25, output |-> 1, cache_write |-> 1, cache_read |-> 1]}
PricingTables == UNION {[ms -> Pricings] : ms \in SUBSET ModelIds}

HealthFileLists ==
    UNION {[1..n -> [model_id : ModelIds, tokens : HealthTokens,
                     time_data : HealthTimeData]] : n \in 0..MaxHealthFiles}

\* The files of a session, named by their position.
NamedFiles(fl) ==
    [i \in 1..Len(fl) |->
        InteractionFile(i, fl[i].model_id, fl[i].tokens, fl[i].time_data)]

InitHealth ==
    /\ session_dir = [exists |-> FALSE, files |-> <<>>]
    /\ now = 0
    /\ \E fl \in HealthFileLists :
          sessions = <<[session_id |-> 1, files |-> NamedFiles(fl)]>>
    /\ pricing_data \in PricingTables
    /\ ret = NoCall
    /\ last = NoCall
    /\ calls = <<>>

NextHealth ==
    \/ \E i \in DOMAIN sessions : ValidateSessionHealth(i)
    \/ \E i \in DOMAIN sessions : GetSessionStatistics(i)
    \/ Return

SpecHealth == InitHealth /\ [][NextHealth]_vars

(***************************************************************************)
(* Health-validator claims.  The session's anomalies are stated over the   *)
(* set of its files, independently of the validator's counters.            *)
(***************************************************************************)
HealthCalled == ret.op = "validate_session_health"

\* The elements of an optional value (none, or the one it holds).
Range1(o) == {o[i] : i \in DOMAIN o}

\* The cost of a set of files, file by file.
RECURSIVE ExpectedCostOf(_, _)
ExpectedCostOf(files, ids) ==
    IF ids = {} THEN 0
    ELSE LET i == CHOOSE x \in ids : TRUE
             f == files[i]
         IN  (IF f.model_id \in DOMAIN pricing_data
              THEN f.tokens.input * pricing_data[f.model_id].input
                   + f.tokens.output * pricing_data[f.model_id].output
                   + f.tokens.cache_write * pricing_data[f.model_id].cache_write
                   + f.tokens.cache_read * pricing_data[f.model_id].cache_read
              ELSE 0)
             + ExpectedCostOf(files, ids \ {i})

ExpectedCost(files) == ExpectedCostOf(files, DOMAIN files)

CheckedFiles == sessions[ret.session].files

ZeroTokenFiles ==
    {i \in DOMAIN CheckedFiles :
        /\ CheckedFiles[i].tokens.input = 0
        /\ CheckedFiles[i].tokens.output = 0
        /\ CheckedFiles[i].tokens.cache_write = 0
        /\ CheckedFiles[i].tokens.cache_read = 0}

\* The model ids the session uses that the pricing table does not hold.
UnpricedModels ==
    {CheckedFiles[i].model_id : i \in DOMAIN CheckedFiles} \ DOMAIN pricing_data

RuleFired(rule) ==
    \E k \in DOMAIN ret.result.warnings : ret.result.warnings[k].rule = rule

WarningRules ==
    [k \in DOMAIN ret.result.warnings |-> ret.result.warnings[k].rule]

\* C3: every health check returns healthy = true and an empty issues list;
\* what the rules find is in warnings only.
C3_AlwaysHealthy ==
    HealthCalled => (ret.result.healthy = TRUE /\ ret.result.issues = <<>>)

\* All five rules fire, and the session is still reported healthy.
C3_Witness ==
    /\ HealthCalled
    /\ Len(ret.result.warnings) = 5
    /\ ret.result.healthy

\* The scenario of C4: one zero-token interaction, one unpriced model (not
\* the "unknown" id), and nothing else for a rule to find.
C4_Scenario ==
    /\ HealthCalled
    /\ Cardinality(ZeroTokenFiles) = 1
    /\ Cardinality(UnpricedModels \ {"unknown"}) = 1
    /\ \A i \in DOMAIN CheckedFiles :
          /\ CheckedFiles[i].time_data # None
          /\ \A d \in Range1(Val(CheckedFiles[i].time_data).duration_ms) :
                d <= LongInteractionMs
    /\ ExpectedCost(CheckedFiles) <= HighCostThreshold

\* C4: a session with one zero-token interaction and one unpriced model gets
\* exactly two warnings (the zero-token one and the unpriced-model one) and
\* healthy = true.
C4_TwoWarnings ==
    C4_Scenario =>
        /\ Len(ret.result.warnings) = 2
        /\ WarningRules = <<"empty_interactions", "unknown_models">>
        /\ ret.result.healthy

\* The scenario with a second, priced interaction that costs exactly the
\* threshold.
C4_Witness ==
    /\ C4_Scenario
    /\ Len(CheckedFiles) = 2
    /\ ExpectedCost(CheckedFiles) = HighCostThreshold
    /\ Len(ret.result.warnings) = 2

\* C5: the unpriced-model warning is emitted iff the session uses a model id
\* that is absent from the pricing table and is not "unknown"; when the only
\* unpriced model id is "unknown" there is no such warning and
\* stats.unknown_models = 0.
C5_UnknownModelWarning ==
    HealthCalled =>
        /\ RuleFired("unknown_models") <=> (UnpricedModels \ {"unknown"} # {})
        /\ UnpricedModels \subseteq {"unknown"} =>
              (~RuleFired("unknown_models") /\ ret.result.stats.unknown_models = 0)

\* "unknown" is the only unpriced model id of the session.
C5_Witness ==
    /\ HealthCalled
    /\ UnpricedModels = {"unknown"}
    /\ Cardinality({CheckedFiles[i].model_id : i \in DOMAIN CheckedFiles}) = 2
    /\ ~RuleFired("unknown_models")
    /\ ret.result.stats.unknown_models = 0

\* C19: for a session with zero files get_session_statistics and
\* validate_session_health complete without an error: interaction_count,
\* tokens_per_interaction and cost_per_interaction are 0, time_analysis is
\* empty, and the list of health warnings is empty.
C19_NoFilesNoError ==
    (ret.op \in {"get_session_statistics", "validate_session_health"}
        /\ sessions[ret.session].files = <<>>) =>
        /\ ret.op = "get_session_statistics" =>
              /\ ~ret.result.raised
              /\ ret.result.interaction_count = 0
              /\ ret.result.averages.tokens_per_interaction = 0
              /\ ret.result.averages.cost_per_interaction = Zero
              /\ ret.result.time_analysis = None
        /\ ret.op = "validate_session_health" =>
              /\ ret.result.warnings = <<>>
              /\ ret.result.stats.total_interactions = 0

\* The statistics of a session without files.
C19_Witness ==
    /\ ret.op = "get_session_statistics"
    /\ sessions[ret.session].files = <<>>
    /\ ret.result.total_tokens = TokenUsage(0, 0, 0, 0)
    /\ ret.result.averages.tokens_per_interaction = 0

(***************************************************************************)
(* SessionAnalyzer.filter_sessions_by_date                                 *)
(***************************************************************************)
RECURSIVE filter_loop(_, _, _)
filter_loop(rest, start_date, end_date) ==
    IF rest = <<>> THEN <<>>
    ELSE LET session == Head(rest)
             keep == /\ start_time(session) # None
                     /\ date_in_range(date_of(Val(start_time(session))),
                                      start_date, end_date)
         IN  (IF keep THEN <<session>> ELSE <<>>)
             \o filter_loop(Tail(rest), start_date, end_date)

\* Mutant: with a bound given, a session without a start time passes.
filter_sessions_by_date_untimed_pass(list, start_date, end_date) ==
    IF start_date = None /\ end_date = None THEN list
    ELSE SelectSeq(list, LAMBDA session :
            \/ start_time(session) = None
            \/ date_in_range(date_of(Val(start_time(session))), start_date, end_date))

\* Lines 205-215: the early return without bounds, the loop otherwise.
filter_sessions_by_date(list, start_date, end_date) ==
    IF start_date = None /\ end_date = None THEN list
    ELSE filter_loop(list, start_date, end_date)

\* The bounds are only handed to date_in_range; no statement of the filter
\* compares them with each other or raises.
FilterSessionsByDate(start_date, end_date) ==
    /\ ret = NoCall
    /\ ret' = [op |-> "filter_sessions_by_date",
               start_date |-> start_date,
               end_date |-> end_date,
               raised |-> FALSE,
               result |-> filter_sessions_by_date(sessions, start_date, end_date)]
    /\ UNCHANGED <<session_dir, now, sessions, pricing_data, last, calls>>

\* Inputs of the session-list operations: dates around the turn of a month
\* and of a Monday week (Fri 2025-01-31, Sat 02-01, Sun 02-02, Mon 02-03).
FirstDate == ymd2ord(2025, 1, 31)
MaxDayOffset == 3
MaxFilterSessions == 2
Dates == FirstDate..(FirstDate + MaxDayOffset)
OptionalDates == {None} \cup {Some(d) : d \in Dates}

\* A session of one interaction, with the given `created` and tokens.
OneFileSession(id, created, tokens) ==
    [session_id |-> id,
     files |-> <<InteractionFile(1, "gpt", tokens, TimeData(created, created, None))>>]

EmptySession(id) == [session_id |-> id, files |-> <<>>]

FilterStartTimes ==
    {None} \cup {Some(datetime(d, h)) : d \in Dates, h \in {0, 23}}

FilterSessionLists ==
    UNION {[1..n -> FilterStartTimes] : n \in 0..MaxFilterSessions}

InitFilter ==
    /\ session_dir = [exists |-> FALSE, files |-> <<>>]
    /\ now = 0
    /\ \E starts \in FilterSessionLists :
          sessions = [i \in 1..Len(starts) |->
                        OneFileSession(i, starts[i], TokenUsage(1, 0, 0, 0))]
    /\ pricing_data = <<>>
    /\ ret = NoCall
    /\ last = NoCall
    /\ calls = <<>>

NextFilter ==
    \/ \E start_date \in OptionalDates, end_date \in OptionalDates :
          FilterSessionsByDate(start_date, end_date)
    \/ Return

SpecFilter == InitFilter /\ [][NextFilter]_vars

\* The start date of the session at position i of the input.
StartDateOf(i) == date_of(Val(start_time(sessions[i])))

\* The positions the filter is to keep, given the bounds of the call.
KeptPositions ==
    {i \in DOMAIN sessions :
        /\ start_time(sessions[i]) # None
        /\ \A lo \in Range1(ret.start_date) : StartDateOf(i) >= lo
        /\ \A hi \in Range1(ret.end_date) : StartDateOf(i) <= hi}

\* C6: with at least one bound given, filter_sessions_by_date keeps exactly
\* the sessions whose start date d satisfies (start_date absent or
\* d >= start_date) and (end_date absent or d <= end_date), in input order.
C6_FilterInclusive ==
    (ret.op = "filter_sessions_by_date"
        /\ (ret.start_date # None \/ ret.end_date # None)) =>
        LET kept == SetToSortedSeq(KeptPositions)
        IN  ret.result = [k \in 1..Len(kept) |-> sessions[kept[k]]]

\* Both bounds given; one session starts late on the end date and is kept,
\* another starts the day after and is dropped.
C6_Witness ==
    /\ ret.op = "filter_sessions_by_date"
    /\ ret.start_date # None /\ ret.end_date # None
    /\ Len(sessions) = 2
    /\ \E i \in KeptPositions :
          /\ StartDateOf(i) = Val(ret.end_date)
          /\ Val(start_time(sessions[i])) % 24 = 23
    /\ \E j \in DOMAIN sessions :
          /\ start_time(sessions[j]) # None
          /\ StartDateOf(j) = Val(ret.end_date) + 1
    /\ Len(ret.result) = 1

\* C14: a date range with end_date earlier than start_date is rejected with
\* an error rather than silently producing an empty result.
C14_ReversedRangeRejected ==
    (ret.op = "filter_sessions_by_date"
        /\ ret.start_date # None /\ ret.end_date # None
        /\ Val(ret.end_date) < Val(ret.start_date)) =>
        ret.raised

\* What the filter returns for such a range: the empty list, without error.
C14_ReversedRangeGivesEmpty ==
    (ret.op = "filter_sessions_by_date"
        /\ ret.start_date # None /\ ret.end_date # None
        /\ Val(ret.end_date) < Val(ret.start_date)) =>
        /\ ~ret.raised
        /\ ret.result = <<>>

(***************************************************************************)
(* TimeUtils.get_custom_week_range                                         *)
(***************************************************************************)
MaxWeekOffset == 20
WeekDates == FirstDate..(FirstDate + MaxWeekOffset)
WeekStartDays == 0..6

\* The week_start_day values a caller can pass: the weekdays and integers
\* below and above them.
WeekStartArguments == WeekStartDays \cup {-1, 7, 9}

\* Neither get_custom_week_range nor get_custom_week_start has a statement
\* that raises: the call returns a range for every integer week_start_day.
GetCustomWeekRange(target_date, week_start_day) ==
    /\ ret = NoCall
    /\ ret' = [op |-> "get_custom_week_range",
               target_date |-> target_date,
               week_start_day |-> week_start_day,
               raised |-> FALSE,
               result |-> get_custom_week_range(target_date, week_start_day)]
    /\ UNCHANGED <<session_dir, now, sessions, pricing_data, last, calls>>

InitWeek ==
    /\ session_dir = [exists |-> FALSE, files |-> <<>>]
    /\ now = 0
    /\ sessions = <<>>
    /\ pricing_data = <<>>
    /\ ret = NoCall
    /\ last = NoCall
    /\ calls = <<>>

NextWeek ==
    \/ \E target_date \in WeekDates, week_start_day \in WeekStartArguments :
          GetCustomWeekRange(target_date, week_start_day)
    \/ Return

SpecWeek == InitWeek /\ [][NextWeek]_vars

\* C7: for w in 0..6, get_custom_week_range(d, w) returns (start, end) with
\* start = d - ((weekday(d) - w) mod 7) and end = start + 6; so start falls
\* on weekday w, is at most 6 days before d, and start <= d <= end.
C7_WeekRange ==
    (ret.op = "get_custom_week_range" /\ ret.week_start_day \in WeekStartDays) =>
        LET d == ret.target_date
            w == ret.week_start_day
            range_start == ret.result[1]
            range_end == ret.result[2]
        IN  /\ \E back \in 0..6 :
                  /\ range_start = d - back
                  /\ (weekday(d) - w - back) % 7 = 0
            /\ range_end = range_start + 6
            /\ weekday(range_start) = w
            /\ range_start <= d /\ d <= range_end

\* A Saturday with Sunday weeks: the week started six days earlier.
C7_Witness ==
    /\ ret.op = "get_custom_week_range"
    /\ weekday(ret.target_date) = 5
    /\ ret.week_start_day = 6
    /\ ret.result[1] = ret.target_date - 6
    /\ ret.result[2] = ret.target_date

\* C13: a week_start_day outside 0..6 is rejected with an error; no week
\* start is computed from it.
C13_InvalidWeekStartRejected ==
    (ret.op = "get_custom_week_range" /\ ret.week_start_day \notin WeekStartDays) =>
        ret.raised

\* What the call returns for a week_start_day outside 0..6: the week range
\* of the weekday congruent to it modulo 7.
C13_InvalidWeekStartWraps ==
    (ret.op = "get_custom_week_range" /\ ret.week_start_day \notin WeekStartDays) =>
        /\ ~ret.raised
        /\ ret.result = get_custom_week_range(ret.target_date, ret.week_start_day % 7)

(***************************************************************************)
(* Timeframe rollups: TimeframeAnalyzer (models/analytics.py) and the      *)
(* SessionAnalyzer methods that call it.                                   *)
(***************************************************************************)
RECURSIVE sum_session_tokens(_)
sum_session_tokens(list) ==
    IF list = <<>> THEN TokenUsage(0, 0, 0, 0)
    ELSE add_tokens(total_tokens(Head(list)), sum_session_tokens(Tail(list)))

RECURSIVE sum_interactions(_)
sum_interactions(list) ==
    IF list = <<>> THEN 0
    ELSE interaction_count(Head(list)) + sum_interactions(Tail(list))

\* DailyUsage: a date, its sessions, and the totals over them.
DailyUsage(day, list) ==
    [date |-> day,
     sessions |-> list,
     total_interactions |-> sum_interactions(list),
     total_tokens |-> sum_session_tokens(list)]

\* TimeframeAnalyzer.create_daily_breakdown: sessions with a start time,
\* grouped by start_time.date(), in ascending date order.
TimeframeAnalyzer_create_daily_breakdown(list) ==
    LET timed == SelectSeq(list, LAMBDA session : start_time(session) # None)
        days == SetToSortedSeq({date_of(Val(start_time(timed[i]))) : i \in DOMAIN timed})
    IN  [k \in 1..Len(days) |->
            DailyUsage(days[k],
                SelectSeq(timed,
                    LAMBDA session : date_of(Val(start_time(session))) = days[k]))]

RECURSIVE sum_field_tokens(_)
sum_field_tokens(buckets) ==
    IF buckets = <<>> THEN TokenUsage(0, 0, 0, 0)
    ELSE add_tokens(Head(buckets).total_tokens, sum_field_tokens(Tail(buckets)))

RECURSIVE sum_field_interactions(_)
sum_field_interactions(buckets) ==
    IF buckets = <<>> THEN 0
    ELSE Head(buckets).total_interactions + sum_field_interactions(Tail(buckets))

RECURSIVE sum_daily_sessions(_)
sum_daily_sessions(days) ==
    IF days = <<>> THEN 0
    ELSE Len(Head(days).sessions) + sum_daily_sessions(Tail(days))

\* WeeklyUsage: a 7-day span and the daily buckets whose date falls in it.
WeeklyUsage(range, days) ==
    [start_date |-> range[1],
     end_date |-> range[2],
     daily_usage |-> days,
     total_sessions |-> sum_daily_sessions(days),
     total_interactions |-> sum_field_interactions(days),
     total_tokens |-> sum_field_tokens(days)]

\* TimeframeAnalyzer.create_weekly_breakdown: one entry per week window of
\* the daily buckets, in ascending order of week start.
TimeframeAnalyzer_create_weekly_breakdown(daily_usage, week_start_day) ==
    LET starts == SetToSortedSeq(
            {get_custom_week_range(daily_usage[i].date, week_start_day)[1] :
                i \in DOMAIN daily_usage})
    IN  [k \in 1..Len(starts) |->
            WeeklyUsage(<<starts[k], starts[k] + 6>>,
                SelectSeq(daily_usage,
                    LAMBDA day : starts[k] <= day.date /\ day.date <= starts[k] + 6))]

RECURSIVE sum_weekly_sessions(_)
sum_weekly_sessions(weeks) ==
    IF weeks = <<>> THEN 0
    ELSE Head(weeks).total_sessions + sum_weekly_sessions(Tail(weeks))

\* The date that decides the month of a week: the week's start date, or the
\* date of its first daily bucket.  The weekly buckets are all that
\* create_monthly_breakdown is given; which of their dates it reads is left
\* open here.
MonthAttributions == {"week_start", "first_day"}

month_date(week, attribution) ==
    IF attribution = "week_start" THEN week.start_date
    ELSE week.daily_usage[1].date

month_key(week, attribution) ==
    year_of(month_date(week, attribution)) * 12
    + (month_of(month_date(week, attribution)) - 1)

\* MonthlyUsage: a calendar month and the weekly buckets counted in it.
MonthlyUsage(key, weeks) ==
    [year |-> key \div 12,
     month |-> (key % 12) + 1,
     weekly_usage |-> weeks,
     total_sessions |-> sum_weekly_sessions(weeks),
     total_interactions |-> sum_field_interactions(weeks),
     total_tokens |-> sum_field_tokens(weeks)]

\* TimeframeAnalyzer.create_monthly_breakdown: the weekly buckets grouped by
\* month, each week counted whole, in ascending (year, month) order.
TimeframeAnalyzer_create_monthly_breakdown(weekly_usage, attribution) ==
    LET keys == SetToSortedSeq(
            {month_key(weekly_usage[i], attribution) : i \in DOMAIN weekly_usage})
    IN  [k \in 1..Len(keys) |->
            MonthlyUsage(keys[k],
                SelectSeq(weekly_usage,
                    LAMBDA week : month_key(week, attribution) = keys[k]))]

create_daily_breakdown(list) == TimeframeAnalyzer_create_daily_breakdown(list)

create_weekly_breakdown(list, week_start_day) ==
    LET daily_usage == create_daily_breakdown(list)
    IN  TimeframeAnalyzer_create_weekly_breakdown(daily_usage, week_start_day)

create_monthly_breakdown(list, attribution) ==
    LET daily_usage == create_daily_breakdown(list)
        weekly_usage == TimeframeAnalyzer_create_weekly_breakdown(daily_usage, 0)
    IN  TimeframeAnalyzer_create_monthly_breakdown(weekly_usage, attribution)

CreateDailyBreakdown ==
    /\ ret = NoCall
    /\ ret' = [op |-> "create_daily_breakdown",
               result |-> create_daily_breakdown(sessions)]
    /\ UNCHANGED <<session_dir, now, sessions, pricing_data, last, calls>>

CreateWeeklyBreakdown(week_start_day) ==
    /\ ret = NoCall
    /\ ret' = [op |-> "create_weekly_breakdown",
               week_start_day |-> week_start_day,
               result |-> create_weekly_breakdown(sessions, week_start_day)]
    /\ UNCHANGED <<session_dir, now, sessions, pricing_data, last, calls>>

CreateMonthlyBreakdown ==
    /\ ret = NoCall
    /\ \E attribution \in MonthAttributions :
          ret' = [op |-> "create_monthly_breakdown",
                  attribution |-> attribution,
                  result |-> create_monthly_breakdown(sessions, attribution)]
    /\ UNCHANGED <<session_dir, now, sessions, pricing_data, last, calls>>

(***************************************************************************)
(* SessionAnalyzer.get_sessions_summary                                    *)
(***************************************************************************)
\* date.day
day_of(ord) == ord - ymd2ord(year_of(ord), month_of(ord), 1) + 1

\* datetime.strftime('%Y-%m-%d'): the year, month and day of the datetime.
strftime_ymd(dt) ==
    <<year_of(date_of(dt)), month_of(date_of(dt)), day_of(date_of(dt))>>

\* The accumulators of get_sessions_summary before the loop.
SummaryStart ==
    [total_tokens |-> TokenUsage(0, 0, 0, 0),
     total_cost |-> 0,
     total_interactions |-> 0,
     models_used |-> {},
     start_times |-> <<>>,
     end_times |-> <<>>]

\* Mutant: a session without a start time is skipped by the whole loop body.
summary_step_timed_only(acc, session, pricing) ==
    IF start_time(session) = None THEN acc
    ELSE [total_tokens |-> add_tokens(acc.total_tokens, total_tokens(session)),
          total_cost |-> acc.total_cost + calculate_total_cost(session, pricing),
          total_interactions |-> acc.total_interactions + interaction_count(session),
          models_used |-> acc.models_used
              \cup {models_used(session)[i] : i \in DOMAIN models_used(session)},
          start_times |-> Append(acc.start_times, Val(start_time(session))),
          end_times |->
              IF end_time(session) # None
              THEN Append(acc.end_times, Val(end_time(session)))
              ELSE acc.end_times]

\* Mutant: the session cost is computed without the analyzer's pricing table.
summary_step_without_pricing(acc, session, pricing) ==
    [total_tokens |-> add_tokens(acc.total_tokens, total_tokens(session)),
     total_cost |-> acc.total_cost + calculate_total_cost(session, <<>>),
     total_interactions |-> acc.total_interactions + interaction_count(session),
     models_used |-> acc.models_used
         \cup {models_used(session)[i] : i \in DOMAIN models_used(session)},
     start_times |->
         IF start_time(session) # None
         THEN Append(acc.start_times, Val(start_time(session)))
         ELSE acc.start_times,
     end_times |->
         IF end_time(session) # None
         THEN Append(acc.end_times, Val(end_time(session)))
         ELSE acc.end_times]

\* One iteration of the loop: the accumulators after the session is added.
summary_step(acc, session, pricing) ==
    [total_tokens |-> add_tokens(acc.total_tokens, total_tokens(session)),
     total_cost |-> acc.total_cost + calculate_total_cost(session, pricing),
     total_interactions |-> acc.total_interactions + interaction_count(session),
     models_used |-> acc.models_used
         \cup {models_used(session)[i] : i \in DOMAIN models_used(session)},
     start_times |->
         IF start_time(session) # None
         THEN Append(acc.start_times, Val(start_time(session)))
         ELSE acc.start_times,
     end_times |->
         IF end_time(session) # None
         THEN Append(acc.end_times, Val(end_time(session)))
         ELSE acc.end_times]

RECURSIVE summary_loop(_, _, _)
summary_loop(acc, rest, pricing) ==
    IF rest = <<>> THEN acc
    ELSE summary_loop(summary_step(acc, Head(rest), pricing), Tail(rest), pricing)

\* date_range: [kind, dates], the dates as formatted by strftime.
summary_date_range(start_times, end_times) ==
    IF start_times = <<>> \/ end_times = <<>>
    THEN [kind |-> "Unknown", dates |-> <<>>]
    ELSE LET earliest == SetMin({start_times[i] : i \in DOMAIN start_times})
             latest == SetMax({end_times[i] : i \in DOMAIN end_times})
         IN  IF date_of(earliest) = date_of(latest)
             THEN [kind |-> "date", dates |-> <<strftime_ymd(earliest)>>]
             ELSE [kind |-> "range",
                   dates |-> <<strftime_ymd(earliest), strftime_ymd(latest)>>]

\* The summary built from the accumulators.  models_used, a sorted list
\* of a set, is the set; a Decimal cost is the integer sum.
summary_result(acc, total_sessions) ==
    [total_sessions |-> total_sessions,
     total_interactions |-> acc.total_interactions,
     total_tokens |-> acc.total_tokens,
     total_cost |-> acc.total_cost,
     models_used |-> acc.models_used,
     date_range |-> summary_date_range(acc.start_times, acc.end_times),
     earliest_session |->
         IF acc.start_times # <<>>
         THEN Some(SetMin({acc.start_times[i] : i \in DOMAIN acc.start_times}))
         ELSE None,
     latest_session |->
         IF acc.end_times # <<>>
         THEN Some(SetMax({acc.end_times[i] : i \in DOMAIN acc.end_times}))
         ELSE None]

\* Mutant: the running totals are kept on the analyzer between calls, so a
\* summary starts from the totals of the summary before it.
get_sessions_summary_keeping_totals(list, pricing) ==
    IF list = <<>> THEN summary_result(SummaryStart, 0)
    ELSE summary_result(
             summary_loop(
                 IF last.op = "get_sessions_summary"
                 THEN [SummaryStart EXCEPT
                          !.total_tokens = last.result.total_tokens,
                          !.total_interactions = last.result.total_interactions]
                 ELSE SummaryStart,
                 list, pricing),
             Len(list))

\* Mutant: no early return for an empty list.
get_sessions_summary_no_empty_case(list, pricing) ==
    summary_result(summary_loop(SummaryStart, list, pricing), Len(list))

get_sessions_summary(list, pricing) ==
    IF list = <<>>
    THEN [total_sessions |-> 0,
          total_interactions |-> 0,
          total_tokens |-> TokenUsage(0, 0, 0, 0),
          total_cost |-> 0,
          models_used |-> {},
          date_range |-> [kind |-> "No sessions", dates |-> <<>>]]
    ELSE summary_result(summary_loop(SummaryStart, list, pricing), Len(list))

\* Mutant: the running token total is the first session's first TokenUsage
\* object instead of a new one, so the loop adds into the input.
sessions_after_summary_aliased(list) ==
    IF list = <<>> \/ list[1].files = <<>> THEN list
    ELSE [list EXCEPT ![1].files[1].tokens = sum_session_tokens(list)]

\* The session list after the call.  The only in-place updates of the loop
\* (total_tokens.<field> += ...) go to the TokenUsage created by the call;
\* the sessions are only read.
sessions_after_summary(list) == list

GetSessionsSummary ==
    /\ ret = NoCall
    /\ ret' = [op |-> "get_sessions_summary",
               result |-> get_sessions_summary(sessions, pricing_data)]
    /\ sessions' = sessions_after_summary(sessions)
    /\ UNCHANGED <<session_dir, now, pricing_data, last, calls>>

\* Inputs of the rollups: sessions without files, with one untimed
\* interaction, or with one interaction created at 10:00 on one of Dates.
\* The tokens of the session at position i are told apart by position, so a
\* token sum names the sessions it was taken over.
MaxSessions == 3
RollupTokens(i) == TokenUsage(2 ^ (i - 1), 10, 0, i)
RollupStartTimes == {None} \cup {Some(datetime(d, 10)) : d \in Dates}
RollupShapes ==
    {[files |-> 0, created |-> None]}
    \cup [files : {1}, created : RollupStartTimes]

RollupSessionLists == UNION {[1..n -> RollupShapes] : n \in 0..MaxSessions}

InitRollup ==
    /\ session_dir = [exists |-> FALSE, files |-> <<>>]
    /\ now = 0
    /\ \E shapes \in RollupSessionLists :
          sessions = [i \in 1..Len(shapes) |->
                        IF shapes[i].files = 0 THEN EmptySession(i)
                        ELSE OneFileSession(i, shapes[i].created, RollupTokens(i))]
    /\ pricing_data = <<>>
    /\ ret = NoCall
    /\ last = NoCall
    /\ calls = <<>>

NextRollup ==
    \/ CreateDailyBreakdown
    \/ \E week_start_day \in WeekStartDays : CreateWeeklyBreakdown(week_start_day)
    \/ CreateMonthlyBreakdown
    \/ GetSessionsSummary
    \/ Return

SpecRollup == InitRollup /\ [][NextRollup]_vars

(***************************************************************************)
(* Rollup claims                                                           *)
(***************************************************************************)
WeeklyCalled == ret.op = "create_weekly_breakdown"

\* The daily buckets of the input sessions.
DailyBuckets == create_daily_breakdown(sessions)

\* The weekly entries of the result that hold the daily bucket.
WeeksHolding(day) ==
    {k \in DOMAIN ret.result :
        \E j \in DOMAIN ret.result[k].daily_usage :
            ret.result[k].daily_usage[j] = day}

RECURSIVE TotalOfBuckets(_, _)
TotalOfBuckets(buckets, ids) ==
    IF ids = {} THEN 0
    ELSE LET i == CHOOSE x \in ids : TRUE
         IN  total(buckets[i].total_tokens) + TotalOfBuckets(buckets, ids \ {i})

\* C8: for a fixed week_start_day the weekly rollup partitions the daily
\* buckets: every daily bucket is merged into exactly one weekly entry, the
\* one whose [start_date, end_date] contains its date; two dates share a
\* week iff their computed week starts are equal; and the weekly token
\* totals sum to the daily token totals.
C8_WeeklyPartition ==
    WeeklyCalled =>
        /\ \A i \in DOMAIN DailyBuckets :
              /\ Cardinality(WeeksHolding(DailyBuckets[i])) = 1
              /\ \A k \in WeeksHolding(DailyBuckets[i]) :
                    /\ ret.result[k].start_date <= DailyBuckets[i].date
                    /\ DailyBuckets[i].date <= ret.result[k].end_date
              /\ Cardinality({k \in DOMAIN ret.result :
                    /\ ret.result[k].start_date <= DailyBuckets[i].date
                    /\ DailyBuckets[i].date <= ret.result[k].end_date}) = 1
        /\ \A i, j \in DOMAIN DailyBuckets :
              (WeeksHolding(DailyBuckets[i]) = WeeksHolding(DailyBuckets[j]))
              <=> (get_custom_week_start(DailyBuckets[i].date, ret.week_start_day)
                   = get_custom_week_start(DailyBuckets[j].date, ret.week_start_day))
        /\ \A k \in DOMAIN ret.result :
              /\ ret.result[k].daily_usage # <<>>
              /\ ret.result[k].end_date = ret.result[k].start_date + 6
        /\ TotalOfBuckets(ret.result, DOMAIN ret.result)
              = TotalOfBuckets(DailyBuckets, DOMAIN DailyBuckets)

\* Three daily buckets in two weeks: two days merged into one week.
C8_Witness ==
    /\ WeeklyCalled
    /\ ret.week_start_day = 6
    /\ Len(DailyBuckets) = 3
    /\ Len(ret.result) = 2
    /\ \E k \in DOMAIN ret.result : Len(ret.result[k].daily_usage) = 2

\* The sessions counted in a list of weekly entries, as a bag of session ids.
RECURSIVE SessionsOfList(_)
SessionsOfList(list) ==
    IF list = <<>> THEN EmptyBag
    ELSE SetToBag({Head(list).session_id}) (+) SessionsOfList(Tail(list))

RECURSIVE SessionsOfDays(_)
SessionsOfDays(days) ==
    IF days = <<>> THEN EmptyBag
    ELSE SessionsOfList(Head(days).sessions) (+) SessionsOfDays(Tail(days))

RECURSIVE SessionsOfWeeks(_)
SessionsOfWeeks(weeks) ==
    IF weeks = <<>> THEN EmptyBag
    ELSE SessionsOfDays(Head(weeks).daily_usage) (+) SessionsOfWeeks(Tail(weeks))

GrandTotals(buckets) ==
    [tokens |-> sum_field_tokens(buckets),
     interactions |-> sum_field_interactions(buckets)]

\* C9: whatever the week_start_day, the weekly breakdown of the same sessions
\* assigns the same multiset of sessions across all weeks, with the same
\* grand token and interaction totals.
C9_WeekStartKeepsSessions ==
    WeeklyCalled =>
        \A other \in WeekStartDays :
            LET weeks == create_weekly_breakdown(sessions, other)
            IN  /\ SessionsOfWeeks(ret.result) = SessionsOfWeeks(weeks)
                /\ GrandTotals(ret.result) = GrandTotals(weeks)

\* The same three sessions grouped into one week by Monday weeks and into
\* two weeks by the week start of the call.
C9_Witness ==
    /\ WeeklyCalled
    /\ Len(ret.result) = 2
    /\ Len(create_weekly_breakdown(sessions, 0)) = 1
    /\ BagCardinality(SessionsOfWeeks(ret.result)) = 3

MonthlyCalled == ret.op = "create_monthly_breakdown"

\* The positions of the sessions that start in the given calendar month.
SessionsOfMonth(y, m) ==
    {i \in DOMAIN sessions :
        /\ start_time(sessions[i]) # None
        /\ year_of(StartDateOf(i)) = y
        /\ month_of(StartDateOf(i)) = m}

RECURSIVE TokensOfSessions(_)
TokensOfSessions(ids) ==
    IF ids = {} THEN TokenUsage(0, 0, 0, 0)
    ELSE LET i == CHOOSE x \in ids : TRUE
         IN  add_tokens(total_tokens(sessions[i]), TokensOfSessions(ids \ {i}))

\* C10: in the monthly breakdown the entry for (year, month) totals exactly
\* the sessions whose start date falls in that calendar month, and every
\* session with a start time is counted in exactly one month.
C10_MonthlyByCalendarMonth ==
    MonthlyCalled =>
        /\ \A k \in DOMAIN ret.result :
              LET in_month == SessionsOfMonth(ret.result[k].year, ret.result[k].month)
              IN  /\ ret.result[k].total_sessions = Cardinality(in_month)
                  /\ ret.result[k].total_tokens = TokensOfSessions(in_month)
                  /\ ret.result[k].total_interactions = Cardinality(in_month)
        /\ \A i \in DOMAIN sessions :
              start_time(sessions[i]) # None =>
                  \E k \in DOMAIN ret.result :
                      /\ ret.result[k].year = year_of(StartDateOf(i))
                      /\ ret.result[k].month = month_of(StartDateOf(i))

\* C10 under one reading of the week-to-month step at a time.
C10_ByWeekStart ==
    (MonthlyCalled /\ ret.attribution = "week_start") => C10_MonthlyByCalendarMonth

C10_ByFirstDay ==
    (MonthlyCalled /\ ret.attribution = "first_day") => C10_MonthlyByCalendarMonth

RollupOps ==
    {"create_daily_breakdown", "create_weekly_breakdown", "create_monthly_breakdown"}

\* The positions of the input sessions that have a start time.
TimedPositions == {i \in DOMAIN sessions : start_time(sessions[i]) # None}

RECURSIVE SessionsOfMonths(_)
SessionsOfMonths(months) ==
    IF months = <<>> THEN EmptyBag
    ELSE SessionsOfWeeks(Head(months).weekly_usage) (+) SessionsOfMonths(Tail(months))

RECURSIVE sum_monthly_sessions(_)
sum_monthly_sessions(months) ==
    IF months = <<>> THEN 0
    ELSE Head(months).total_sessions + sum_monthly_sessions(Tail(months))

\* The sessions held by the buckets of the returned rollup, as a bag of ids.
BucketedSessions ==
    CASE ret.op = "create_daily_breakdown" -> SessionsOfDays(ret.result)
      [] ret.op = "create_weekly_breakdown" -> SessionsOfWeeks(ret.result)
      [] ret.op = "create_monthly_breakdown" -> SessionsOfMonths(ret.result)

\* The number of sessions the buckets of the returned rollup report.
CountedSessions ==
    CASE ret.op = "create_daily_breakdown" -> sum_daily_sessions(ret.result)
      [] ret.op = "create_weekly_breakdown" -> sum_weekly_sessions(ret.result)
      [] ret.op = "create_monthly_breakdown" -> sum_monthly_sessions(ret.result)

\* C11: a session without a start time is in no daily, weekly or monthly
\* bucket; a session with a start time is in exactly one bucket of each
\* level, at the daily level the one keyed by the date of its start time; so
\* the buckets of a level hold as many sessions as the input has sessions
\* with a start time.
C11_TimedSessionsBucketedOnce ==
    ret.op \in RollupOps =>
        /\ BucketedSessions = SetToBag({sessions[i].session_id : i \in TimedPositions})
        /\ CountedSessions = Cardinality(TimedPositions)
        /\ ret.op = "create_daily_breakdown" =>
              /\ \A k \in DOMAIN ret.result :
                    \A j \in DOMAIN ret.result[k].sessions :
                        /\ start_time(ret.result[k].sessions[j]) # None
                        /\ date_of(Val(start_time(ret.result[k].sessions[j])))
                              = ret.result[k].date
              /\ \A k, l \in DOMAIN ret.result :
                    ret.result[k].date = ret.result[l].date => k = l

\* Three sessions, one of them without a start time: the weekly rollup
\* holds the other two.
C11_Witness ==
    /\ ret.op = "create_weekly_breakdown"
    /\ Len(sessions) = 3
    /\ Cardinality(TimedPositions) = 2
    /\ \E i \in DOMAIN sessions :
          /\ interaction_count(sessions[i]) = 1
          /\ start_time(sessions[i]) = None
    /\ CountedSessions = 2

SummaryCalled == ret.op = "get_sessions_summary"

\* C12: for an empty session list the daily, weekly and monthly breakdowns
\* return an empty list, and get_sessions_summary returns total_sessions = 0,
\* total_interactions = 0, an all-zero TokenUsage, zero cost, no models and
\* the date range 'No sessions'.
C12_EmptyListGivesEmptyResults ==
    sessions = <<>> =>
        /\ ret.op \in RollupOps => ret.result = <<>>
        /\ SummaryCalled =>
              /\ ret.result.total_sessions = 0
              /\ ret.result.total_interactions = 0
              /\ ret.result.total_tokens = TokenUsage(0, 0, 0, 0)
              /\ ret.result.total_cost = 0
              /\ ret.result.models_used = {}
              /\ ret.result.date_range = [kind |-> "No sessions", dates |-> <<>>]

\* The summary of the empty list.
C12_Witness ==
    /\ sessions = <<>>
    /\ SummaryCalled
    /\ ret.result.date_range.kind = "No sessions"

RECURSIVE InteractionsOfSessions(_)
InteractionsOfSessions(ids) ==
    IF ids = {} THEN 0
    ELSE LET i == CHOOSE x \in ids : TRUE
         IN  Len(sessions[i].files) + InteractionsOfSessions(ids \ {i})

\* C20: get_sessions_summary adds the sessions up: each field of
\* total_tokens is the sum of that field over all input sessions, with or
\* without a start time; total_interactions is the sum of the interaction
\* counts; total_sessions is the length of the input; and every reordering
\* of the input gives the same summary.
C20_SummaryAdditive ==
    SummaryCalled =>
        /\ \A field \in {"input", "output", "cache_write", "cache_read"} :
              ret.result.total_tokens[field]
                  = TokensOfSessions(DOMAIN sessions)[field]
        /\ total(ret.result.total_tokens)
              = total(TokensOfSessions(DOMAIN sessions))
        /\ ret.result.total_interactions = InteractionsOfSessions(DOMAIN sessions)
        /\ ret.result.total_sessions = Len(sessions)
        /\ \A p \in Permutations(DOMAIN sessions) :
              get_sessions_summary([i \in DOMAIN sessions |-> sessions[p[i]]],
                                   pricing_data) = ret.result

\* Three sessions, one of them an interaction without a start time that is
\* counted all the same, the other two on different dates.
C20_Witness ==
    /\ SummaryCalled
    /\ Len(sessions) = 3
    /\ \E i \in DOMAIN sessions :
          /\ start_time(sessions[i]) = None
          /\ total(total_tokens(sessions[i])) > 0
    /\ ret.result.total_interactions = 3
    /\ ret.result.date_range.kind = "range"

(***************************************************************************)
(* TimeUtils: the current period (date.today())                            *)
(***************************************************************************)
\* date.today(): the clock counts seconds from 00:00 on FirstDate.
date_today(clock) == FirstDate + clock \div (24 * 60 * 60)

get_month_range(year, month) ==
    LET start_date == ymd2ord(year, month, 1)
        next_month == IF month = 12 THEN ymd2ord(year + 1, 1, 1)
                      ELSE ymd2ord(year, month + 1, 1)
        end_date == next_month - 1
    IN  <<start_date, end_date>>

get_week_range(year, week) ==
    LET jan_4 == ymd2ord(year, 1, 4)
        week_start == jan_4 - weekday(jan_4) + 7 * (week - 1)
        week_end == week_start + 6
    IN  <<week_start, week_end>>

\* date.isocalendar(): the ISO year and week are those of the Thursday of
\* the date's Monday week.
isocalendar(d) ==
    LET thursday == d - weekday(d) + 3
        iso_year == year_of(thursday)
    IN  <<iso_year, (thursday - ymd2ord(iso_year, 1, 1)) \div 7 + 1, weekday(d) + 1>>

get_current_month_range(today) == get_month_range(year_of(today), month_of(today))

get_current_week_range(today) ==
    get_week_range(isocalendar(today)[1], isocalendar(today)[2])

(***************************************************************************)
(* Breakdown reporters: TimeframeAnalyzer.create_model_breakdown and       *)
(* create_project_breakdown, and the SessionAnalyzer methods calling them. *)
(***************************************************************************)
TimeframeNames == {"all", "daily", "weekly", "monthly"}

\* The current period of a timeframe other than "all".
current_period(timeframe, today) ==
    CASE timeframe = "daily" -> <<today, today>>
      [] timeframe = "weekly" -> get_current_week_range(today)
      [] timeframe = "monthly" -> get_current_month_range(today)

\* The sessions a breakdown is taken over: those in the date range when a
\* bound is given, and in the current period when the timeframe has one.
breakdown_sessions(list, timeframe, start_date, end_date, today) ==
    LET dated ==
            IF start_date = None /\ end_date = None THEN list
            ELSE SelectSeq(list, LAMBDA session :
                    /\ start_time(session) # None
                    /\ date_in_range(date_of(Val(start_time(session))),
                                     start_date, end_date))
    IN  IF timeframe = "all" THEN dated
        ELSE SelectSeq(dated, LAMBDA session :
                /\ start_time(session) # None
                /\ date_in_range(date_of(Val(start_time(session))),
                                 Some(current_period(timeframe, today)[1]),
                                 Some(current_period(timeframe, today)[2])))

RECURSIVE all_files(_)
all_files(list) ==
    IF list = <<>> THEN <<>> ELSE Head(list).files \o all_files(Tail(list))

\* The start times of the sessions of a list that have one.
start_times_of(list) ==
    {Val(start_time(list[i])) : i \in {j \in DOMAIN list : start_time(list[j]) # None}}

\* ModelUsageStats: the sessions that used the model, and the interactions,
\* tokens and cost of the files that used it.
ModelUsageStats(model, list, pricing) ==
    LET using == SelectSeq(list, LAMBDA session :
                    \E i \in DOMAIN models_used(session) : models_used(session)[i] = model)
        files == SelectSeq(all_files(using), LAMBDA f : f.model_id = model)
    IN  [model_name |-> model,
         total_sessions |-> Len(using),
         total_interactions |-> Len(files),
         total_tokens |-> sum_tokens(files),
         total_cost |-> files_cost(files, pricing),
         first_used |-> IF start_times_of(using) = {} THEN None
                        ELSE Some(SetMin(start_times_of(using))),
         last_used |-> IF start_times_of(using) = {} THEN None
                       ELSE Some(SetMax(start_times_of(using)))]

\* ModelBreakdownReport; model_stats is keyed by model id.
TimeframeAnalyzer_create_model_breakdown(list, pricing, timeframe, start_date, end_date, today) ==
    LET remaining == breakdown_sessions(list, timeframe, start_date, end_date, today)
        models == UNION {{models_used(remaining[i])[k] :
                            k \in DOMAIN models_used(remaining[i])} :
                         i \in DOMAIN remaining}
    IN  [timeframe |-> timeframe,
         start_date |-> start_date,
         end_date |-> end_date,
         model_stats |-> [model \in models |-> ModelUsageStats(model, remaining, pricing)]]

RECURSIVE sum_costs(_, _)
sum_costs(list, pricing) ==
    IF list = <<>> THEN 0
    ELSE calculate_total_cost(Head(list), pricing) + sum_costs(Tail(list), pricing)

\* ProjectUsageStats: the totals of the sessions of the project.
ProjectUsageStats(project, list, pricing) ==
    LET of_project == SelectSeq(list, LAMBDA session : session.project_name = project)
    IN  [project_name |-> project,
         total_sessions |-> Len(of_project),
         total_interactions |-> sum_interactions(of_project),
         total_tokens |-> sum_session_tokens(of_project),
         total_cost |-> sum_costs(of_project, pricing),
         models_used |-> UNION {{models_used(of_project[i])[k] :
                                    k \in DOMAIN models_used(of_project[i])} :
                                 i \in DOMAIN of_project},
         first_activity |-> IF start_times_of(of_project) = {} THEN None
                            ELSE Some(SetMin(start_times_of(of_project))),
         last_activity |-> IF start_times_of(of_project) = {} THEN None
                           ELSE Some(SetMax(start_times_of(of_project)))]

\* ProjectBreakdownReport; project_stats is keyed by project name.
TimeframeAnalyzer_create_project_breakdown(list, pricing, timeframe, start_date, end_date, today) ==
    LET remaining == breakdown_sessions(list, timeframe, start_date, end_date, today)
        projects == {remaining[i].project_name : i \in DOMAIN remaining}
    IN  [timeframe |-> timeframe,
         start_date |-> start_date,
         end_date |-> end_date,
         project_stats |->
             [project \in projects |-> ProjectUsageStats(project, remaining, pricing)]]

\* Mutant: the date bounds are not passed on.
create_model_breakdown_without_dates(list, pricing, timeframe, start_date, end_date, today) ==
    TimeframeAnalyzer_create_model_breakdown(list, pricing, timeframe, None, None, today)

create_model_breakdown(list, pricing, timeframe, start_date, end_date, today) ==
    TimeframeAnalyzer_create_model_breakdown(list, pricing, timeframe, start_date,
                                             end_date, today)

create_project_breakdown(list, pricing, timeframe, start_date, end_date, today) ==
    TimeframeAnalyzer_create_project_breakdown(list, pricing, timeframe, start_date,
                                               end_date, today)

CreateModelBreakdown(timeframe, start_date, end_date) ==
    /\ ret = NoCall
    /\ ret' = [op |-> "create_model_breakdown",
               timeframe |-> timeframe,
               start_date |-> start_date,
               end_date |-> end_date,
               today |-> date_today(now),
               result |-> create_model_breakdown(sessions, pricing_data, timeframe,
                              start_date, end_date, date_today(now))]
    /\ UNCHANGED <<session_dir, now, sessions, pricing_data, last, calls>>

CreateProjectBreakdown(timeframe, start_date, end_date) ==
    /\ ret = NoCall
    /\ ret' = [op |-> "create_project_breakdown",
               timeframe |-> timeframe,
               start_date |-> start_date,
               end_date |-> end_date,
               today |-> date_today(now),
               result |-> create_project_breakdown(sessions, pricing_data, timeframe,
                              start_date, end_date, date_today(now))]
    /\ UNCHANGED <<session_dir, now, sessions, pricing_data, last, calls>>

(***************************************************************************)
(* SessionAnalyzer.filter_sessions_by_model                                *)
(***************************************************************************)
filter_sessions_by_model(list, models) ==
    IF models = <<>> THEN list
    ELSE SelectSeq(list, LAMBDA session :
            \E i \in DOMAIN models :
                \E k \in DOMAIN models_used(session) :
                    models_used(session)[k] = models[i])

FilterSessionsByModel(models) ==
    /\ ret = NoCall
    /\ ret' = [op |-> "filter_sessions_by_model",
               models |-> models,
               result |-> filter_sessions_by_model(sessions, models)]
    /\ UNCHANGED <<session_dir, now, sessions, pricing_data, last, calls>>

(***************************************************************************)
(* The analyzer as a whole: every operation on one session list            *)
(***************************************************************************)
\* Inputs: up to MaxAnalyzerSessions sessions, each of one of five shapes,
\* on Fri 2025-01-31, Sat 02-01 and Mon 02-03; the clock starts on FirstDate
\* and runs for up to MaxDaysPassed days.  "gpt" is priced, "claude" is not.
MaxAnalyzerSessions == 2
MaxDaysPassed == 1

\* The tokens of file j of the session at position i: the input count names
\* the file.
AnalyzerTokens(i, j) == TokenUsage(2 ^ (2 * (i - 1) + (j - 1)), 10, 0, i)

AnalyzerShapes ==
    {[project_name |-> "a", files |-> <<>>],
     [project_name |-> "a",
      files |-> <<[model_id |-> "gpt", created |-> Some(datetime(FirstDate, 10))]>>],
     [project_name |-> "b",
      files |-> <<[model_id |-> "gpt", created |-> Some(datetime(FirstDate + 1, 10))],
                  [model_id |-> "claude", created |-> Some(datetime(FirstDate + 1, 11))]>>],
     [project_name |-> "b",
      files |-> <<[model_id |-> "claude", created |-> None]>>],
     [project_name |-> "a",
      files |-> <<[model_id |-> "gpt", created |-> Some(datetime(FirstDate + 3, 10))],
                  [model_id |-> "gpt", created |-> Some(datetime(FirstDate + 3, 12))]>>]}

AnalyzerSession(i, shape) ==
    [session_id |-> i,
     project_name |-> shape.project_name,
     files |-> [j \in 1..Len(shape.files) |->
                  InteractionFile(j, shape.files[j].model_id, AnalyzerTokens(i, j),
                      TimeData(shape.files[j].created, shape.files[j].created, None))]]

AnalyzerSessionLists == UNION {[1..n -> AnalyzerShapes] : n \in 0..MaxAnalyzerSessions}

\* The date ranges and model lists passed by the caller.
BreakdownRanges ==
    {<<None, None>>, <<Some(FirstDate + 1), None>>, <<None, Some(FirstDate)>>}

ModelLists == {<<>>, <<"gpt">>, <<"claude", "gpt">>}

InitAnalyzer ==
    /\ session_dir = [exists |-> FALSE, files |-> <<>>]
    /\ now = 0
    /\ \E shapes \in AnalyzerSessionLists :
          sessions = [i \in 1..Len(shapes) |-> AnalyzerSession(i, shapes[i])]
    /\ pricing_data \in [{"gpt"} -> Pricings]
    /\ ret = NoCall
    /\ last = NoCall
    /\ calls = <<>>

\* Midnight passes between two calls.
DayPasses ==
    /\ date_today(now) < FirstDate + MaxDaysPassed
    /\ now' = now + 24 * 60 * 60
    /\ UNCHANGED <<session_dir, sessions, pricing_data, ret, last, calls>>

NextAnalyzer ==
    \/ GetSessionsSummary
    \/ CreateDailyBreakdown
    \/ \E week_start_day \in WeekStartDays : CreateWeeklyBreakdown(week_start_day)
    \/ CreateMonthlyBreakdown
    \/ \E timeframe \in TimeframeNames, range \in BreakdownRanges :
          CreateModelBreakdown(timeframe, range[1], range[2])
    \/ \E timeframe \in TimeframeNames, range \in BreakdownRanges :
          CreateProjectBreakdown(timeframe, range[1], range[2])
    \/ \E range \in BreakdownRanges : FilterSessionsByDate(range[1], range[2])
    \/ \E models \in ModelLists : FilterSessionsByModel(models)
    \/ \E i \in DOMAIN sessions : GetSessionStatistics(i)
    \/ \E i \in DOMAIN sessions : ValidateSessionHealth(i)
    \/ DayPasses
    \/ Return

SpecAnalyzer == InitAnalyzer /\ [][NextAnalyzer]_vars

\* The caller keeps the result of a call and goes on to the next one.
TakeResult ==
    /\ ret # NoCall
    /\ last' = ret
    /\ ret' = NoCall
    /\ UNCHANGED <<session_dir, now, sessions, pricing_data, calls>>

\* The rollup and breakdown calls made one after the other, on the same
\* day or on different days.
RepeatWeekStartDays == {0, 6}

NextRepeat ==
    \/ GetSessionsSummary
    \/ CreateDailyBreakdown
    \/ \E week_start_day \in RepeatWeekStartDays : CreateWeeklyBreakdown(week_start_day)
    \/ CreateMonthlyBreakdown
    \/ \E timeframe \in TimeframeNames : CreateModelBreakdown(timeframe, None, None)
    \/ \E timeframe \in TimeframeNames : CreateProjectBreakdown(timeframe, None, None)
    \/ DayPasses
    \/ TakeResult

SpecRepeat == InitAnalyzer /\ [][NextRepeat]_vars

(***************************************************************************)
(* Breakdown and analyzer claims                                           *)
(***************************************************************************)
ModelBreakdownCalled == ret.op = "create_model_breakdown"

\* The positions of the sessions a breakdown is to be taken over, read off
\* the arguments of the call and the date of the call.
FilteredPositions ==
    {i \in DOMAIN sessions :
        /\ (ret.start_date # None \/ ret.end_date # None) =>
              /\ start_time(sessions[i]) # None
              /\ \A lo \in Range1(ret.start_date) : StartDateOf(i) >= lo
              /\ \A hi \in Range1(ret.end_date) : StartDateOf(i) <= hi
        /\ ret.timeframe # "all" => start_time(sessions[i]) # None
        /\ ret.timeframe = "daily" => StartDateOf(i) = ret.today
        /\ ret.timeframe = "weekly" =>
              StartDateOf(i) - weekday(StartDateOf(i)) = ret.today - weekday(ret.today)
        /\ ret.timeframe = "monthly" =>
              /\ year_of(StartDateOf(i)) = year_of(ret.today)
              /\ month_of(StartDateOf(i)) = month_of(ret.today)}

RECURSIVE SumOverModels(_, _)
SumOverModels(stats, models) ==
    IF models = {} THEN [tokens |-> TokenUsage(0, 0, 0, 0), interactions |-> 0]
    ELSE LET m == CHOOSE x \in models : TRUE
             rest == SumOverModels(stats, models \ {m})
         IN  [tokens |-> add_tokens(stats[m].total_tokens, rest.tokens),
              interactions |-> stats[m].total_interactions + rest.interactions]

\* The model ids used by the files of the session at position i.
ModelsOfSession(i) == {sessions[i].files[j].model_id : j \in DOMAIN sessions[i].files}

\* C15: in a model breakdown the token totals and interaction counts summed
\* over the reported models equal the totals of the filtered sessions, each
\* interaction being counted under exactly one model; and a session is
\* counted once in the session count of every model it used.
C15_ModelBreakdownTotals ==
    ModelBreakdownCalled =>
        LET stats == ret.result.model_stats
            summed == SumOverModels(stats, DOMAIN stats)
        IN  /\ summed.tokens = TokensOfSessions(FilteredPositions)
            /\ summed.interactions = InteractionsOfSessions(FilteredPositions)
            /\ DOMAIN stats = UNION {ModelsOfSession(i) : i \in FilteredPositions}
            /\ \A m \in DOMAIN stats :
                  /\ stats[m].total_sessions
                        = Cardinality({i \in FilteredPositions : m \in ModelsOfSession(i)})
                  /\ stats[m].total_interactions
                        = Cardinality(UNION {
                              {<<i, j>> : j \in {k \in DOMAIN sessions[i].files :
                                              sessions[i].files[k].model_id = m}} :
                              i \in FilteredPositions})

\* A session that used two models and a session the date range leaves out:
\* the first is counted under both models, the second under none.
C15_Witness ==
    /\ ModelBreakdownCalled
    /\ ret.timeframe = "all"
    /\ ret.start_date # None
    /\ Len(sessions) = 2
    /\ Cardinality(FilteredPositions) = 1
    /\ \E i \in FilteredPositions : Cardinality(ModelsOfSession(i)) = 2
    /\ \A m \in {"gpt", "claude"} :
          /\ m \in DOMAIN ret.result.model_stats
          /\ ret.result.model_stats[m].total_sessions = 1
          /\ ret.result.model_stats[m].total_interactions = 1

\* C17: no analyzer operation writes to its inputs: across every step the
\* session list, with every SessionData and InteractionFile in it, and the
\* analyzer's pricing_data are unchanged.
C17_InputsUnchanged ==
    [][sessions' = sessions /\ pricing_data' = pricing_data]_vars

\* A summary taken over two sessions with files that left them as they were
\* built: position-numbered ids and token counts.
C17_Witness ==
    /\ SummaryCalled
    /\ Len(sessions) = 2
    /\ \A i \in DOMAIN sessions :
          /\ sessions[i].session_id = i
          /\ sessions[i].files # <<>>
          /\ \A j \in DOMAIN sessions[i].files :
                sessions[i].files[j].tokens = AnalyzerTokens(i, j)
    /\ ret.result.total_tokens.input > 1
    /\ pricing_data # <<>>

BreakdownOps == {"create_model_breakdown", "create_project_breakdown"}

\* The operation and arguments of a recorded call.
Arguments(call) ==
    IF call.op \in BreakdownOps
    THEN [call EXCEPT !.result = 0, !.today = 0]
    ELSE [call EXCEPT !.result = 0]

\* The call just made repeats the one before it.
RepeatedCall ==
    /\ ret # NoCall
    /\ last # NoCall
    /\ Arguments(ret) = Arguments(last)

Callers == {1, 2}

\* A caller that is not inside the method.
IdleCall == [pc |-> "idle", i |-> 0, acc |-> SummaryStart, result |-> NoCall,
             overlapped |-> FALSE]

\* Mutant: the accumulators are attributes of the analyzer, shared by all
\* callers.
accumulators_on_analyzer(caller) == 1

\* Where the accumulators of a call live: they are local variables of the
\* call, one set per caller.
accumulators_of(caller) == caller

\* Lines 63-78: the early return for an empty list, or the accumulators.
BeginSummary(caller) ==
    /\ calls[caller].pc = "idle"
    /\ IF sessions = <<>>
       THEN calls' = [calls EXCEPT
                ![caller] = [@ EXCEPT
                    !.pc = "done",
                    !.result = get_sessions_summary(sessions, pricing_data)]]
       ELSE calls' = [[calls EXCEPT ![accumulators_of(caller)].acc = SummaryStart]
                        EXCEPT ![caller].pc = "loop", ![caller].i = 1]
    /\ UNCHANGED <<session_dir, now, sessions, pricing_data, ret, last>>

\* Lines 80-94: one iteration of the loop.  `overlapped` notes that another
\* caller was inside its loop at that moment.
SummaryIteration(caller) ==
    /\ calls[caller].pc = "loop"
    /\ calls[caller].i <= Len(sessions)
    /\ calls' = [[calls EXCEPT
                    ![accumulators_of(caller)].acc =
                        summary_step(@, sessions[calls[caller].i], pricing_data)]
                  EXCEPT ![caller].i = @ + 1,
                         ![caller].overlapped =
                             @ \/ \E other \in Callers \ {caller} :
                                      calls[other].pc = "loop"]
    /\ UNCHANGED <<session_dir, now, sessions, pricing_data, ret, last>>

\* Lines 96-115: the date range and the returned dictionary.
FinishSummary(caller) ==
    /\ calls[caller].pc = "loop"
    /\ calls[caller].i > Len(sessions)
    /\ calls' = [calls EXCEPT
            ![caller] = [@ EXCEPT
                !.pc = "done",
                !.result = summary_result(calls[accumulators_of(caller)].acc,
                                          Len(sessions))]]
    /\ UNCHANGED <<session_dir, now, sessions, pricing_data, ret, last>>

\* The caller takes its result and may call again.
TakeSummary(caller) ==
    /\ calls[caller].pc = "done"
    /\ calls' = [calls EXCEPT ![caller] = IdleCall]
    /\ UNCHANGED <<session_dir, now, sessions, pricing_data, ret, last>>

InitConcurrent ==
    /\ session_dir = [exists |-> FALSE, files |-> <<>>]
    /\ now = 0
    /\ \E shapes \in AnalyzerSessionLists :
          sessions = [i \in 1..Len(shapes) |-> AnalyzerSession(i, shapes[i])]
    /\ pricing_data \in [{"gpt"} -> Pricings]
    /\ ret = NoCall
    /\ last = NoCall
    /\ calls = [caller \in Callers |-> IdleCall]

NextConcurrent ==
    \E caller \in Callers :
        \/ BeginSummary(caller)
        \/ SummaryIteration(caller)
        \/ FinishSummary(caller)
        \/ TakeSummary(caller)

SpecConcurrent == InitConcurrent /\ [][NextConcurrent]_vars

\* C18: of two get_sessions_summary calls running at the same time on the
\* same analyzer and session list, under any interleaving of their steps,
\* each returns what a call running alone returns.
C18_ConcurrentCallsAgree ==
    \A caller \in Callers :
        calls[caller].pc = "done" =>
            calls[caller].result = get_sessions_summary(sessions, pricing_data)

\* Both calls have returned, each after iterations that fell between the
\* iterations of the other.
C18_Witness ==
    /\ Len(sessions) = 2
    /\ \A caller \in Callers :
          /\ calls[caller].pc = "done"
          /\ calls[caller].overlapped
          /\ calls[caller].result.total_interactions > 0

(***************************************************************************)
(* Unpriced models                                                         *)
(***************************************************************************)
\* The interactions of the given sessions whose model has a pricing entry.
PricedInteractions(positions) ==
    UNION {{<<i, j>> : j \in {k \in DOMAIN sessions[i].files :
                                sessions[i].files[k].model_id \in DOMAIN pricing_data}} :
           i \in positions}

\* The cost of a set of priced interactions, one by one.
RECURSIVE CostOfInteractions(_)
CostOfInteractions(interactions) ==
    IF interactions = {} THEN 0
    ELSE LET x == CHOOSE y \in interactions : TRUE
             f == sessions[x[1]].files[x[2]]
         IN  f.tokens.input * pricing_data[f.model_id].input
             + f.tokens.output * pricing_data[f.model_id].output
             + f.tokens.cache_write * pricing_data[f.model_id].cache_write
             + f.tokens.cache_read * pricing_data[f.model_id].cache_read
             + CostOfInteractions(interactions \ {x})

\* C21: a model that a session uses and the pricing table lacks is no error:
\* get_sessions_summary and validate_session_health return their result, the
\* total cost is the cost of the priced interactions alone, the validator
\* reports no issue, and its unpriced-model warning is what shows the gap.
C21_UnpricedModelCostsNothing ==
    /\ SummaryCalled =>
          ret.result.total_cost = CostOfInteractions(PricedInteractions(DOMAIN sessions))
    /\ HealthCalled =>
          /\ ret.result.stats.total_cost
                = CostOfInteractions(PricedInteractions({ret.session}))
          /\ ret.result.healthy /\ ret.result.issues = <<>>
          /\ UnpricedModels \ {"unknown"} # {} =>
                /\ RuleFired("unknown_models")
                /\ \A k \in DOMAIN ret.result.warnings :
                      ret.result.warnings[k].rule = "unknown_models" =>
                          {ret.result.warnings[k].models[n] :
                              n \in DOMAIN ret.result.warnings[k].models}
                              = UnpricedModels \ {"unknown"}

\* A summary over a session with a priced and an unpriced interaction: the
\* cost is that of the priced one.
C21_Witness ==
    /\ SummaryCalled
    /\ Len(sessions) = 1
    /\ Len(sessions[1].files) = 2
    /\ sessions[1].files[1].model_id \in DOMAIN pricing_data
    /\ sessions[1].files[2].model_id \notin DOMAIN pricing_data
    /\ total(sessions[1].files[2].tokens) > 0
    /\ ret.result.total_cost = cost_of(sessions[1].files[1].tokens,
                                       pricing_data[sessions[1].files[1].model_id])
    /\ ret.result.total_cost > 0

(***************************************************************************)
(* The five health rules, each stated over the files of the session.       *)
(***************************************************************************)
HealthRules ==
    <<"empty_interactions", "missing_time_data", "unknown_models", "high_cost",
      "long_interactions">>

UntimedFiles == {i \in DOMAIN CheckedFiles : CheckedFiles[i].time_data = None}

\* The files whose time data holds a duration above five minutes.
LongFiles ==
    {i \in DOMAIN CheckedFiles :
        /\ CheckedFiles[i].time_data # None
        /\ \E d \in Range1(Val(CheckedFiles[i].time_data).duration_ms) :
              d > LongInteractionMs}

RuleHolds(rule) ==
    CASE rule = "empty_interactions" -> ZeroTokenFiles # {}
      [] rule = "missing_time_data" -> UntimedFiles # {}
      [] rule = "unknown_models" -> UnpricedModels \ {"unknown"} # {}
      [] rule = "high_cost" -> ExpectedCost(CheckedFiles) > HighCostThreshold
      [] rule = "long_interactions" -> LongFiles # {}

\* C22: the five rules are independent and additive: the warnings are, in the
\* fixed rule order, one entry for each rule whose condition holds and none
\* for the others (so between 0 and 5 entries), and the warning of a counted
\* rule is there iff its stats counter is greater than zero.
C22_RulesIndependent ==
    HealthCalled =>
        /\ WarningRules = SelectSeq(HealthRules, RuleHolds)
        /\ Len(ret.result.warnings) \in 0..5
        /\ RuleFired("empty_interactions") <=> ret.result.stats.empty_interactions > 0
        /\ RuleFired("missing_time_data") <=> ret.result.stats.missing_time_data > 0
        /\ RuleFired("unknown_models") <=> ret.result.stats.unknown_models > 0

\* The second and the fifth rule fire, the rules between them do not.
C22_Witness ==
    /\ HealthCalled
    /\ RuleHolds("missing_time_data") /\ RuleHolds("long_interactions")
    /\ ~RuleHolds("empty_interactions")
    /\ ~RuleHolds("unknown_models")
    /\ ~RuleHolds("high_cost")
    /\ WarningRules = <<"missing_time_data", "long_interactions">>

\* C23: the thresholds are strict: the high-cost warning is there iff the
\* session cost is above 50, the long-interaction warning iff some
\* interaction has time data with a duration above 300000 ms, and the
\* missing-time counter counts the interactions without any time data.
C23_StrictThresholds ==
    HealthCalled =>
        /\ RuleFired("high_cost") <=> ExpectedCost(CheckedFiles) > HighCostThreshold
        /\ RuleFired("long_interactions") <=> LongFiles # {}
        /\ \A k \in DOMAIN ret.result.warnings :
              ret.result.warnings[k].rule = "long_interactions" =>
                  ret.result.warnings[k].count = Cardinality(LongFiles)
        /\ ret.result.stats.missing_time_data = Cardinality(UntimedFiles)

\* A session that costs exactly 50, with one interaction of exactly 300000 ms
\* and one whose time data holds no duration: neither threshold warning, and
\* no interaction counted as missing time data.
C23_Witness ==
    /\ HealthCalled
    /\ ExpectedCost(CheckedFiles) = HighCostThreshold
    /\ Len(CheckedFiles) = 2
    /\ CheckedFiles[1].time_data = TimeData(None, None, Some(LongInteractionMs))
    /\ CheckedFiles[2].time_data = TimeData(None, None, None)
    /\ ~RuleFired("high_cost")
    /\ ~RuleFired("long_interactions")
    /\ ret.result.stats.missing_time_data = 0

(***************************************************************************)
(* Burn rate: sign of the result and of the divisor                        *)
(***************************************************************************)
\* C24: calculate_burn_rate returns no negative rate and divides by no
\* non-positive span: for all modification times (those equal to or later
\* than now included) and token counts the result is 0.0 when the span from
\* the oldest in-window modification time to now is <= 0 and a value >= 0
\* otherwise; a missing session path or a directory without JSON files
\* gives 0.0.
C24_BurnRateNonNegative ==
    BurnCalled =>
        /\ ret.result.num >= 0 /\ ret.result.den > 0
        /\ (InWindowIds # {} /\ WindowSpan <= 0) => ret.result = Zero
        /\ ret.result # Zero => (InWindowIds # {} /\ WindowSpan > 0)
        /\ (~session_dir.exists \/ DOMAIN session_dir.files = {}) => ret.result = Zero

\* Two files with tokens, both modified after the `now` of the call.
C24_Witness ==
    /\ BurnCalled
    /\ Cardinality(InWindowIds) >= 2
    /\ \A id \in InWindowIds :
          /\ session_dir.files[id].mtime > ret.now
          /\ session_dir.files[id].tokens # None
          /\ Val(session_dir.files[id].tokens) > 0
    /\ WindowSpan < 0
    /\ ret.result = Zero

(***************************************************************************)
(* Date filter: sessions without a start time                              *)
(***************************************************************************)
FilterCalled == ret.op = "filter_sessions_by_date"

UntimedPositions == {i \in DOMAIN sessions : start_time(sessions[i]) = None}

\* C25: without start_date and end_date the filter returns its input list as
\* it is, the sessions without a start time included; with at least one bound
\* given no session without a start time is returned, also when the bounds
\* admit every date of the input.
C25_UntimedSessions ==
    FilterCalled =>
        IF ret.start_date = None /\ ret.end_date = None
        THEN ret.result = sessions
        ELSE /\ \A k \in DOMAIN ret.result : start_time(ret.result[k]) # None
             /\ Len(ret.result) <= Len(sessions) - Cardinality(UntimedPositions)
             /\ KeptPositions = DOMAIN sessions \ UntimedPositions =>
                   Len(ret.result) = Len(sessions) - Cardinality(UntimedPositions)

\* Only a start bound, the earliest date there is: the timed session is kept
\* and the one without a start time is dropped.
C25_Witness ==
    /\ FilterCalled
    /\ ret.start_date = Some(FirstDate) /\ ret.end_date = None
    /\ Len(sessions) = 2
    /\ start_time(sessions[1]) = None
    /\ start_time(sessions[2]) # None
    /\ ret.result = <<sessions[2]>>

(***************************************************************************)
(* Error-handling utilities: utils/error_handling.py                       *)
(*                                                                         *)
(* A callable handed to a utility is modelled by its outcome: it returns a *)
(* value or raises.  An exception is a record of its class name, of the    *)
(* built-in base it derives from, and of its message.                      *)
(***************************************************************************)
Returned(value) == [kind |-> "return", value |-> value]
Raised(error) == [kind |-> "raise", error |-> error]

\* An exception class outside the package, deriving from Exception.
PlainException(type, message) ==
    [type |-> type, base |-> "Exception", message |-> message]

\* Lines 13-19: OCMonitorError and its subclasses; details defaults to {}.
\* A details dictionary is the sequence of its keys.
OCMonitorError(type, message, details) ==
    [type |-> type, base |-> "OCMonitorError", message |-> message,
     details |-> IF details = None THEN <<>> ELSE Val(details)]

\* KeyboardInterrupt and SystemExit derive from BaseException only.
KeyboardInterrupt ==
    [type |-> "KeyboardInterrupt", base |-> "BaseException", message |-> ""]
SystemExit ==
    [type |-> "SystemExit", base |-> "BaseException", message |-> "1"]

\* What `except Exception` catches.
is_exception(error) == error.base \in {"Exception", "OCMonitorError"}

\* isinstance(error, OCMonitorError)
is_ocmonitor_error(error) == error.base = "OCMonitorError"

\* Lines 61-91: the dictionary built by ErrorHandler.handle_error.
handle_error(verbose, error, context) ==
    LET error_info ==
            [error_type |-> error.type, message |-> error.message,
             context |-> context, success |-> FALSE]
        with_details ==
            IF is_ocmonitor_error(error)
            THEN error_info @@ [details |-> error.details]
            ELSE error_info
    IN  IF verbose
        THEN with_details @@ [traceback |-> "format_exc"]
        ELSE with_details

\* Mutant: only the package's own exceptions are caught.
safe_execute_own_errors_only(verbose, outcome, context) ==
    IF outcome.kind = "return"
    THEN [raised |-> None,
          returned |-> Some([success |-> TRUE, result |-> outcome.value])]
    ELSE IF is_ocmonitor_error(outcome.error)
    THEN [raised |-> None,
          returned |-> Some(handle_error(verbose, outcome.error, context))]
    ELSE [raised |-> Some(outcome.error), returned |-> None]

\* Lines 93-112: ErrorHandler.safe_execute.  What the call returns, or the
\* exception that leaves it.
safe_execute(verbose, outcome, context) ==
    IF outcome.kind = "return"
    THEN [raised |-> None,
          returned |-> Some([success |-> TRUE, result |-> outcome.value])]
    ELSE IF is_exception(outcome.error)
    THEN [raised |-> None,
          returned |-> Some(handle_error(verbose, outcome.error, context))]
    ELSE [raised |-> Some(outcome.error), returned |-> None]

\* A call of a callable, as an entry of the log of what a utility did.
CallEvent(target, outcome) == [kind |-> "call", target |-> target, outcome |-> outcome]

SafeExecute(verbose, outcome, context) ==
    /\ ret = NoCall
    /\ calls[1].pc = "idle"
    /\ ret' = [op |-> "safe_execute",
               verbose |-> verbose,
               context |-> context,
               func_outcome |-> outcome,
               events |-> <<CallEvent("func", outcome)>>,
               raised |-> safe_execute(verbose, outcome, context).raised,
               returned |-> safe_execute(verbose, outcome, context).returned]
    /\ UNCHANGED <<session_dir, now, sessions, pricing_data, last, calls>>

\* Lines 306-343: OperationResult.
OperationResult(success, data, error) ==
    [success |-> success, data |-> data, error |-> error]
OperationResult_success_result(data) == OperationResult(TRUE, Some(data), None)
OperationResult_error_result(error) == OperationResult(FALSE, None, Some(error))

(***************************************************************************)
(* retry_operation (lines 371-394), one step per call of func and per      *)
(* sleep.                                                                  *)
(***************************************************************************)
RECURSIVE Pow2(_)
Pow2(k) == IF k = 0 THEN 1 ELSE 2 * Pow2(k - 1)

\* Mutant: the same delay before every retry.
backoff_constant(delay, attempt) == delay

\* Line 392: delay * (2 ** attempt)
backoff(delay, attempt) == delay * Pow2(attempt)

\* Mutant: the last attempt is taken to be the one after range(max_retries + 1).
is_last_attempt_off_by_one(attempt, max_retries) == attempt = max_retries + 1

\* Line 390: if attempt == max_retries
is_last_attempt(attempt, max_retries) == attempt = max_retries

\* A caller that is in no call.
IdleFrame == [pc |-> "idle", op |-> "none"]

\* The call is entered: the for loop starts at attempt 0.
RetryOperation(max_retries, delay) ==
    /\ ret = NoCall
    /\ calls[1].pc = "idle"
    /\ calls' = <<[pc |-> "loop", op |-> "retry_operation",
                   max_retries |-> max_retries, delay |-> delay,
                   attempt |-> 0, events |-> <<>>]>>
    /\ UNCHANGED <<session_dir, now, sessions, pricing_data, ret, last>>

\* The call is left, with a return value or with an exception.
retry_return(frame, events, raised, returned) ==
    [op |-> "retry_operation",
     max_retries |-> frame.max_retries,
     delay |-> frame.delay,
     events |-> events,
     raised |-> raised,
     returned |-> returned]

\* Lines 386-392: one iteration up to the sleep: func is called; its value is
\* returned, its Exception is returned on the last attempt and waited out on
\* the others; an exception that is no Exception leaves the call.
RetryAttempt(outcome) ==
    /\ calls[1].pc = "loop"
    /\ calls[1].attempt <= calls[1].max_retries
    /\ LET frame == calls[1]
           events == Append(frame.events,
                            CallEvent("func", outcome) @@ [attempt |-> frame.attempt])
       IN  IF outcome.kind = "return"
           THEN /\ ret' = retry_return(frame, events, None,
                              Some(OperationResult_success_result(outcome.value)))
                /\ calls' = <<IdleFrame>>
           ELSE IF ~is_exception(outcome.error)
           THEN /\ ret' = retry_return(frame, events, Some(outcome.error), None)
                /\ calls' = <<IdleFrame>>
           ELSE IF is_last_attempt(frame.attempt, frame.max_retries)
           THEN /\ ret' = retry_return(frame, events, None,
                              Some(OperationResult_error_result(outcome.error)))
                /\ calls' = <<IdleFrame>>
           ELSE /\ calls' = <<[frame EXCEPT !.pc = "sleep", !.events = events]>>
                /\ ret' = ret
    /\ UNCHANGED <<session_dir, now, sessions, pricing_data, last>>

\* Line 392: time.sleep, then the next iteration.
RetrySleep ==
    /\ calls[1].pc = "sleep"
    /\ calls' = <<[calls[1] EXCEPT
                    !.pc = "loop",
                    !.attempt = @ + 1,
                    !.events = Append(@, [kind |-> "sleep",
                                          seconds |-> backoff(calls[1].delay,
                                                              calls[1].attempt)])]>>
    /\ UNCHANGED <<session_dir, now, sessions, pricing_data, ret, last>>

\* Line 394: the loop has run out without returning.
RetryExhausted ==
    /\ calls[1].pc = "loop"
    /\ calls[1].attempt > calls[1].max_retries
    /\ ret' = retry_return(calls[1], calls[1].events, None,
                  Some(OperationResult_error_result(
                          PlainException("RuntimeError", "Retry operation failed"))))
    /\ calls' = <<IdleFrame>>
    /\ UNCHANGED <<session_dir, now, sessions, pricing_data, last>>

(***************************************************************************)
(* graceful_shutdown (lines 397-426)                                       *)
(***************************************************************************)
\* Lines 407-411 and 415-419: cleanup_func, when there is one, is called and
\* its Exception is logged; another exception of it leaves the wrapper.
run_cleanup(cleanup_func, cleanup_outcome) ==
    IF ~cleanup_func
    THEN [events |-> <<>>, raised |-> None]
    ELSE [events |-> <<CallEvent("cleanup_func", cleanup_outcome)>>,
          raised |-> IF cleanup_outcome.kind = "raise"
                        /\ ~is_exception(cleanup_outcome.error)
                     THEN Some(cleanup_outcome.error)
                     ELSE None]

\* Mutant: an Exception of cleanup_func is not caught.
graceful_shutdown_cleanup_uncaught(cleanup_func, outcome, cleanup_outcome) ==
    IF outcome.kind = "return"
    THEN [events |-> <<CallEvent("func", outcome)>>,
          raised |-> None, returned |-> Some(outcome.value)]
    ELSE IF cleanup_func
    THEN [events |-> <<CallEvent("func", outcome),
                       CallEvent("cleanup_func", cleanup_outcome)>>,
          raised |-> IF cleanup_outcome.kind = "raise"
                     THEN Some(cleanup_outcome.error)
                     ELSE Some(outcome.error),
          returned |-> None]
    ELSE [events |-> <<CallEvent("func", outcome)>>,
          raised |-> Some(outcome.error), returned |-> None]

\* The wrapper: the value of func is returned; on KeyboardInterrupt and on
\* Exception the cleanup runs and the exception is raised again; any other
\* exception leaves the wrapper at once.
graceful_shutdown(cleanup_func, outcome, cleanup_outcome) ==
    IF outcome.kind = "return"
    THEN [events |-> <<CallEvent("func", outcome)>>,
          raised |-> None, returned |-> Some(outcome.value)]
    ELSE IF outcome.error = KeyboardInterrupt \/ is_exception(outcome.error)
    THEN LET cleanup == run_cleanup(cleanup_func, cleanup_outcome)
         IN  [events |-> <<CallEvent("func", outcome)>> \o cleanup.events,
              raised |-> IF cleanup.raised # None
                         THEN cleanup.raised
                         ELSE Some(outcome.error),
              returned |-> None]
    ELSE [events |-> <<CallEvent("func", outcome)>>,
          raised |-> Some(outcome.error), returned |-> None]

GracefulShutdown(cleanup_func, outcome, cleanup_outcome) ==
    /\ ret = NoCall
    /\ calls[1].pc = "idle"
    /\ ret' = [op |-> "graceful_shutdown",
               cleanup_func |-> cleanup_func,
               func_outcome |-> outcome,
               cleanup_outcome |-> cleanup_outcome,
               events |-> graceful_shutdown(cleanup_func, outcome, cleanup_outcome).events,
               raised |-> graceful_shutdown(cleanup_func, outcome, cleanup_outcome).raised,
               returned |-> graceful_shutdown(cleanup_func, outcome, cleanup_outcome).returned]
    /\ UNCHANGED <<session_dir, now, sessions, pricing_data, last, calls>>

\* Inputs of the utilities.
MaxRetries == 3
RetryCounts == -1..MaxRetries
Delays == {0, 1, 3}
Contexts == {"", "loading sessions"}
FuncValues == {"a", "b"}
FuncErrors ==
    {PlainException("ValueError", "bad value"),
     OCMonitorError("OCMonitorError", "failed", None),
     OCMonitorError("ValidationError", "invalid", Some(<<"field">>)),
     KeyboardInterrupt,
     SystemExit}
FuncOutcomes ==
    {Returned(v) : v \in FuncValues} \cup {Raised(e) : e \in FuncErrors}
CleanupOutcomes ==
    {Returned("none"),
     Raised(PlainException("OSError", "cleanup failed")),
     Raised(KeyboardInterrupt)}

InitErrors ==
    /\ session_dir = [exists |-> FALSE, files |-> <<>>]
    /\ now = 0
    /\ sessions = <<>>
    /\ pricing_data = <<>>
    /\ ret = NoCall
    /\ last = NoCall
    /\ calls = <<IdleFrame>>

NextErrors ==
    \/ \E verbose \in BOOLEAN, outcome \in FuncOutcomes, context \in Contexts :
          SafeExecute(verbose, outcome, context)
    \/ \E max_retries \in RetryCounts, delay \in Delays :
          RetryOperation(max_retries, delay)
    \/ \E outcome \in FuncOutcomes : RetryAttempt(outcome)
    \/ RetrySleep
    \/ RetryExhausted
    \/ \E cleanup_func \in BOOLEAN, outcome \in FuncOutcomes,
          cleanup_outcome \in CleanupOutcomes :
          GracefulShutdown(cleanup_func, outcome, cleanup_outcome)
    \/ Return

SpecErrors == InitErrors /\ [][NextErrors]_vars

\* The interpreter goes on with a call it has entered, and func and
\* time.sleep come back: a started retry_operation takes its next step.
RetryFairness ==
    /\ WF_vars(\E outcome \in FuncOutcomes : RetryAttempt(outcome))
    /\ WF_vars(RetrySleep)
    /\ WF_vars(RetryExhausted)

SpecErrorsFair == InitErrors /\ [][NextErrors]_vars /\ RetryFairness

(***************************************************************************)
(* Claims on the error-handling utilities.  They are stated over the log   *)
(* of calls and sleeps of the call in progress or just returned.           *)
(***************************************************************************)
RetryRunning == calls[1].op = "retry_operation"
RetryDone == ret.op = "retry_operation"

\* The retry_operation call in progress, or the one that has just returned.
RetryView == IF RetryRunning THEN calls[1] ELSE ret

FuncCalls(events) == SelectSeq(events, LAMBDA e : e.kind = "call" /\ e.target = "func")
Sleeps(events) == SelectSeq(events, LAMBDA e : e.kind = "sleep")

\* What C26 says of the calls made so far and of the value returned.
C26_AtMostMaxRetriesPlusOne ==
    (RetryRunning \/ RetryDone) =>
        LET attempts == FuncCalls(RetryView.events)
            n == Len(attempts)
        IN  /\ n <= (IF RetryView.max_retries >= 0 THEN RetryView.max_retries + 1 ELSE 0)
            /\ \A k \in 1..(n - 1) :
                  /\ attempts[k].outcome.kind = "raise"
                  /\ is_exception(attempts[k].outcome.error)
            /\ (RetryDone /\ ret.raised = None) =>
                  LET result == Val(ret.returned)
                  IN  /\ result.success <=>
                            \E k \in 1..n : attempts[k].outcome.kind = "return"
                      /\ result.success =>
                            /\ result.data = Some(attempts[n].outcome.value)
                            /\ result.error = None
                      /\ (~result.success /\ n > 0) =>
                            /\ n = RetryView.max_retries + 1
                            /\ result.error = Some(attempts[n].outcome.error)
                            /\ result.data = None
                      /\ n = 0 => RetryView.max_retries < 0
            /\ (RetryDone /\ ret.raised # None) =>
                  /\ n > 0
                  /\ ~is_exception(attempts[n].outcome.error)
                  /\ ret.raised = Some(attempts[n].outcome.error)

\* C26: retry_operation always terminates, after at most max_retries + 1
\* calls of func: the first attempt that does not raise ends it with a
\* success result carrying that attempt's value; when all max_retries + 1
\* attempts raise an Exception it ends with an error result carrying the
\* last attempt's exception; success is true iff an attempt succeeded.
C26_RetryTerminates ==
    /\ []C26_AtMostMaxRetriesPlusOne
    /\ (RetryRunning ~> RetryDone)

\* Two attempts fail, the third returns a value, and nothing is called after it.
C26_Witness ==
    /\ RetryDone
    /\ ret.max_retries = 3
    /\ Len(FuncCalls(ret.events)) = 3
    /\ FuncCalls(ret.events)[3].outcome = Returned("b")
    /\ ret.returned = Some(OperationResult_success_result("b"))

\* C27: the k-th failed attempt (k = 0, 1, ...) that is not the last one is
\* followed by one sleep of delay * 2^k and then by attempt k + 1; there is
\* no sleep before the first attempt, after a successful attempt or after
\* the final failed attempt.
C27_ExponentialBackoff ==
    (RetryRunning \/ RetryDone) =>
        LET events == RetryView.events
            sleeps == Sleeps(events)
        IN  /\ \A i \in DOMAIN events :
                  IF events[i].kind = "sleep"
                  THEN /\ i > 1
                       /\ events[i - 1].kind = "call"
                       /\ events[i - 1].outcome.kind = "raise"
                       /\ events[i - 1].attempt < RetryView.max_retries
                       /\ i < Len(events) =>
                             /\ events[i + 1].kind = "call"
                             /\ events[i + 1].attempt = events[i - 1].attempt + 1
                  ELSE /\ i = 1 => events[i].attempt = 0
                       /\ i > 1 => events[i - 1].kind = "sleep"
            /\ \A j \in DOMAIN sleeps :
                  sleeps[j].seconds =
                      (IF j = 1 THEN RetryView.delay ELSE 2 * sleeps[j - 1].seconds)
            /\ RetryDone =>
                  (events = <<>> \/ events[Len(events)].kind = "call")

\* All four attempts of a call with max_retries = 3 and delay = 3 fail: the
\* sleeps are 3, 6 and 12 seconds.
C27_Witness ==
    /\ RetryDone
    /\ ret.max_retries = 3 /\ ret.delay = 3
    /\ Len(FuncCalls(ret.events)) = 4
    /\ ret.returned # None
    /\ Val(ret.returned).success = FALSE
    /\ Len(Sleeps(ret.events)) = 3
    /\ [j \in 1..3 |-> Sleeps(ret.events)[j].seconds] = <<3, 6, 12>>

GracefulCalled == ret.op = "graceful_shutdown"

CleanupCalls(events) ==
    SelectSeq(events, LAMBDA e : e.kind = "call" /\ e.target = "cleanup_func")

\* C28: a function wrapped with a cleanup_func has the cleanup run exactly
\* once when it raises an Exception or KeyboardInterrupt and never when it
\* returns; the function's exception is raised again after the cleanup, also
\* when the cleanup raises an Exception; a returned value is passed through.
C28_CleanupOnceOnError ==
    (GracefulCalled /\ ret.cleanup_func) =>
        IF ret.func_outcome.kind = "return"
        THEN /\ CleanupCalls(ret.events) = <<>>
             /\ ret.returned = Some(ret.func_outcome.value)
             /\ ret.raised = None
        ELSE (ret.func_outcome.error.type = "KeyboardInterrupt"
                \/ ret.func_outcome.error.base # "BaseException") =>
                /\ Len(CleanupCalls(ret.events)) = 1
                /\ ret.events[Len(ret.events)].target = "cleanup_func"
                /\ ret.returned = None
                /\ (ret.cleanup_outcome.kind = "return"
                      \/ ret.cleanup_outcome.error.base # "BaseException") =>
                      ret.raised = Some(ret.func_outcome.error)

\* The function is interrupted and the cleanup fails with an Exception: the
\* KeyboardInterrupt is what leaves the wrapper.
C28_Witness ==
    /\ GracefulCalled
    /\ ret.cleanup_func
    /\ ret.func_outcome = Raised(KeyboardInterrupt)
    /\ ret.cleanup_outcome.kind = "raise"
    /\ ret.cleanup_outcome.error.type = "OSError"
    /\ Len(ret.events) = 2
    /\ ret.raised = Some(KeyboardInterrupt)

SafeExecuteCalled == ret.op = "safe_execute"

\* C29: safe_execute lets no Exception of the wrapped function out: it
\* returns {success: true, result: r} when the function returns r and
\* otherwise a record with success = false, the exception's type name, its
\* message and the context (and the details of an OCMonitorError); one of the
\* two shapes is returned, and the function is called once.
C29_SafeExecuteShapes ==
    SafeExecuteCalled =>
        /\ Len(ret.events) = 1
        /\ ret.func_outcome.kind = "return" =>
              /\ ret.raised = None
              /\ ret.returned = Some([success |-> TRUE,
                                      result |-> ret.func_outcome.value])
        /\ (ret.func_outcome.kind = "raise"
              /\ ret.func_outcome.error.base # "BaseException") =>
              /\ ret.raised = None
              /\ ret.returned # None
              /\ LET info == Val(ret.returned)
                     error == ret.func_outcome.error
                 IN  /\ info.success = FALSE
                     /\ info.error_type = error.type
                     /\ info.message = error.message
                     /\ info.context = ret.context
                     /\ "result" \notin DOMAIN info
                     /\ IF error.base = "OCMonitorError"
                        THEN info.details = error.details
                        ELSE "details" \notin DOMAIN info
        /\ ret.returned # None =>
              (Val(ret.returned).success <=> "result" \in DOMAIN Val(ret.returned))

\* A ValidationError with details, caught and reported with its context.
C29_Witness ==
    /\ SafeExecuteCalled
    /\ ret.func_outcome.kind = "raise"
    /\ ret.func_outcome.error.type = "ValidationError"
    /\ ret.context = "loading sessions"
    /\ ret.raised = None
    /\ ret.returned # None
    /\ Val(ret.returned).success = FALSE
    /\ Val(ret.returned).details = <<"field">>

(***************************************************************************)
(* Export: the export command of cli.py and ExportService                  *)
(***************************************************************************)
\* cli.py lines 412-414: the report types the command accepts.
ExportChoices ==
    {"session", "sessions", "daily", "weekly", "monthly", "models", "projects"}

\* The report types a direct caller of export_report_data hands in: those of
\* the command, the name the single-session branch tests for, and one that
\* no branch names.
ServiceReportTypes == ExportChoices \cup {"single_session", "summary"}

ExportFormats == {"csv", "json"}

\* date.isoformat() and datetime.isoformat(): the fields of the text.
isoformat_date(d) == <<year_of(d), month_of(d), day_of(d)>>
isoformat_datetime(dt) ==
    <<year_of(date_of(dt)), month_of(date_of(dt)), day_of(date_of(dt)), dt % 24>>

\* ', '.join(names): one text made of the names and the separator.
join(separator, names) == [separator |-> separator, parts |-> names]

\* dict.get(key): the value, or None for a key the dictionary lacks.
dict_get(dict, key) == IF key \in DOMAIN dict THEN Some(dict[key]) ELSE None

\* The names of a set, as a list.
SetToNameSeq(names) ==
    SelectSeq(<<"a", "b", "claude", "gpt", "unknown">>, LAMBDA name : name \in names)

\* The entries of a name-keyed collection of statistics, as a list.
stats_list(stats) ==
    [k \in 1..Len(SetToNameSeq(DOMAIN stats)) |-> stats[SetToNameSeq(DOMAIN stats)[k]]]

\* The report a generator call of the command returns: a dictionary holding
\* the report's data under the key that ExportService reads it from, or None
\* when there is no session to report on.
generate_report(report_type, list, pricing, today, attribution, position) ==
    CASE report_type \in {"session", "single_session"} ->
            IF position \in DOMAIN list
            THEN Some([report_type |-> "single_session", session |-> list[position]])
            ELSE None
      [] report_type = "sessions" ->
            Some([report_type |-> "sessions", sessions |-> list])
      [] report_type = "daily" ->
            Some([report_type |-> "daily",
                  daily_usage |-> create_daily_breakdown(list)])
      [] report_type = "weekly" ->
            Some([report_type |-> "weekly",
                  weekly_usage |-> create_weekly_breakdown(list, 0)])
      [] report_type = "monthly" ->
            Some([report_type |-> "monthly",
                  monthly_usage |-> create_monthly_breakdown(list, attribution)])
      [] report_type = "models" ->
            Some([report_type |-> "models",
                  model_breakdown |->
                      create_model_breakdown(list, pricing, "all", None, None, today)])
      [] report_type = "projects" ->
            Some([report_type |-> "projects",
                  project_breakdown |->
                      create_project_breakdown(list, pricing, "all", None, None, today)])
      [] OTHER ->
            Some([report_type |-> report_type,
                  summary |-> get_sessions_summary(list, pricing)])

\* Lines 196-210: the row of one interaction file.
interaction_row(session, file) ==
    [session_id |-> session.session_id,
     session_title |-> session.session_title,
     project_name |-> session.project_name,
     file_name |-> file.file_name,
     model_id |-> file.model_id,
     input_tokens |-> file.tokens.input,
     output_tokens |-> file.tokens.output,
     cache_write_tokens |-> file.tokens.cache_write,
     cache_read_tokens |-> file.tokens.cache_read,
     total_tokens |-> total(file.tokens),
     created_time |-> IF file.time_data # None
                      THEN Val(file.time_data).created ELSE None,
     completed_time |-> IF file.time_data # None
                        THEN Val(file.time_data).completed ELSE None,
     duration_ms |-> IF file.time_data # None
                     THEN Val(file.time_data).duration_ms ELSE None]

\* Lines 221-235: the row of one session.
session_row(session) ==
    [session_id |-> session.session_id,
     session_title |-> session.session_title,
     project_name |-> session.project_name,
     start_time |-> IF start_time(session) # None
                    THEN Some(isoformat_datetime(Val(start_time(session)))) ELSE None,
     end_time |-> IF end_time(session) # None
                  THEN Some(isoformat_datetime(Val(end_time(session)))) ELSE None,
     duration_ms |-> duration_ms(session),
     interaction_count |-> interaction_count(session),
     models_used |-> join(", ", models_used(session)),
     total_input_tokens |-> total_tokens(session).input,
     total_output_tokens |-> total_tokens(session).output,
     total_cache_write_tokens |-> total_tokens(session).cache_write,
     total_cache_read_tokens |-> total_tokens(session).cache_read,
     total_tokens |-> total(total_tokens(session))]

\* Lines 245-255: the row of one day.
daily_row(day) ==
    [date |-> isoformat_date(day.date),
     sessions_count |-> Len(day.sessions),
     total_interactions |-> day.total_interactions,
     input_tokens |-> day.total_tokens.input,
     output_tokens |-> day.total_tokens.output,
     cache_write_tokens |-> day.total_tokens.cache_write,
     cache_read_tokens |-> day.total_tokens.cache_read,
     total_tokens |-> total(day.total_tokens),
     models_used |-> join(", ", distinct_models(all_files(day.sessions), {}))]

\* Lines 263-275: the row of one week.
weekly_row(week) ==
    [year |-> isocalendar(week.start_date)[1],
     week_number |-> isocalendar(week.start_date)[2],
     start_date |-> isoformat_date(week.start_date),
     end_date |-> isoformat_date(week.end_date),
     sessions_count |-> week.total_sessions,
     total_interactions |-> week.total_interactions,
     input_tokens |-> week.total_tokens.input,
     output_tokens |-> week.total_tokens.output,
     cache_write_tokens |-> week.total_tokens.cache_write,
     cache_read_tokens |-> week.total_tokens.cache_read,
     total_tokens |-> total(week.total_tokens)]

\* Lines 283-293: the row of one month.
monthly_row(month) ==
    [year |-> month.year,
     month |-> month.month,
     sessions_count |-> month.total_sessions,
     total_interactions |-> month.total_interactions,
     input_tokens |-> month.total_tokens.input,
     output_tokens |-> month.total_tokens.output,
     cache_write_tokens |-> month.total_tokens.cache_write,
     cache_read_tokens |-> month.total_tokens.cache_read,
     total_tokens |-> total(month.total_tokens)]

\* Lines 302-314: the row of one model.
model_row(model) ==
    [model_name |-> model.model_name,
     total_sessions |-> model.total_sessions,
     total_interactions |-> model.total_interactions,
     input_tokens |-> model.total_tokens.input,
     output_tokens |-> model.total_tokens.output,
     cache_write_tokens |-> model.total_tokens.cache_write,
     cache_read_tokens |-> model.total_tokens.cache_read,
     total_tokens |-> total(model.total_tokens),
     total_cost |-> Frac(model.total_cost, 1),
     first_used |-> IF model.first_used # None
                    THEN Some(isoformat_datetime(Val(model.first_used))) ELSE None,
     last_used |-> IF model.last_used # None
                   THEN Some(isoformat_datetime(Val(model.last_used))) ELSE None]

\* Lines 324-337: the row of one project.
project_row(project) ==
    [project_name |-> project.project_name,
     total_sessions |-> project.total_sessions,
     total_interactions |-> project.total_interactions,
     input_tokens |-> project.total_tokens.input,
     output_tokens |-> project.total_tokens.output,
     cache_write_tokens |-> project.total_tokens.cache_write,
     cache_read_tokens |-> project.total_tokens.cache_read,
     total_tokens |-> total(project.total_tokens),
     total_cost |-> Frac(project.total_cost, 1),
     models_used |-> join(", ", SetToNameSeq(project.models_used)),
     first_activity |-> IF project.first_activity # None
                        THEN Some(isoformat_datetime(Val(project.first_activity)))
                        ELSE None,
     last_activity |-> IF project.last_activity # None
                       THEN Some(isoformat_datetime(Val(project.last_activity)))
                       ELSE None]

\* What a branch returns: a list of rows, or the dictionary it was handed.
ExportRows(branch, rows) == [branch |-> branch, is_list |-> TRUE, rows |-> rows]
ExportAsIs(report_data) ==
    [branch |-> "else", is_list |-> FALSE, dict |-> report_data]

\* Lines 181-344: ExportService._extract_export_data.  The result names the
\* branch of the if/elif chain that produced it.
extract_export_data(report_data, report_type) ==
    CASE report_type = "single_session" ->
            IF dict_get(report_data, "session") # None
            THEN ExportRows("single_session",
                    [j \in DOMAIN report_data.session.files |->
                        interaction_row(report_data.session,
                                        report_data.session.files[j])])
            ELSE ExportRows("single_session", <<>>)
      [] report_type = "sessions" ->
            LET list == IF dict_get(report_data, "sessions") # None
                        THEN report_data.sessions ELSE <<>>
            IN  ExportRows("sessions", [i \in DOMAIN list |-> session_row(list[i])])
      [] report_type = "daily" ->
            LET list == IF dict_get(report_data, "daily_usage") # None
                        THEN report_data.daily_usage ELSE <<>>
            IN  ExportRows("daily", [i \in DOMAIN list |-> daily_row(list[i])])
      [] report_type = "weekly" ->
            LET list == IF dict_get(report_data, "weekly_usage") # None
                        THEN report_data.weekly_usage ELSE <<>>
            IN  ExportRows("weekly", [i \in DOMAIN list |-> weekly_row(list[i])])
      [] report_type = "monthly" ->
            LET list == IF dict_get(report_data, "monthly_usage") # None
                        THEN report_data.monthly_usage ELSE <<>>
            IN  ExportRows("monthly", [i \in DOMAIN list |-> monthly_row(list[i])])
      [] report_type = "models" ->
            IF dict_get(report_data, "model_breakdown") # None
            THEN LET list == stats_list(report_data.model_breakdown.model_stats)
                 IN  ExportRows("models", [i \in DOMAIN list |-> model_row(list[i])])
            ELSE ExportRows("models", <<>>)
      [] report_type = "projects" ->
            IF dict_get(report_data, "project_breakdown") # None
            THEN LET list == stats_list(report_data.project_breakdown.project_stats)
                 IN  ExportRows("projects",
                                [i \in DOMAIN list |-> project_row(list[i])])
            ELSE ExportRows("projects", <<>>)
      [] OTHER -> ExportAsIs(report_data)

\* export_to_csv (lines 25-84) and export_to_json (lines 86-144): the number
\* of records written, or the exception raised.  The CSV writer asks every
\* element of its data for keys(); the elements of a dictionary are its keys,
\* which are strings.
write_export(export_data, export_format) ==
    IF export_format = "csv"
    THEN IF export_data.is_list
         THEN IF export_data.rows = <<>>
              THEN Raised(PlainException("ValueError", "No data to export"))
              ELSE Returned(Len(export_data.rows))
         ELSE Raised(PlainException("AttributeError",
                                    "'str' object has no attribute 'keys'"))
    ELSE IF export_data.is_list
         THEN Returned(Len(export_data.rows))
         ELSE Returned(1)

\* Lines 146-179: ExportService.export_report_data.
export_report_data(report_data, report_type, export_format) ==
    LET export_data == extract_export_data(report_data, report_type)
    IN  [export_data |-> export_data,
         outcome |-> write_export(export_data, export_format)]

\* A direct call of the service, with the report of the given type.
ExportReportData(report_type, export_format, position, attribution) ==
    /\ ret = NoCall
    /\ generate_report(report_type, sessions, pricing_data, date_today(now),
                       attribution, position) # None
    /\ LET report_data == Val(generate_report(report_type, sessions, pricing_data,
                                  date_today(now), attribution, position))
       IN  ret' = [op |-> "export_report_data",
                   exported |-> TRUE,
                   report_type |-> report_type,
                   export_format |-> export_format,
                   position |-> position,
                   report_data |-> report_data,
                   export_data |->
                       export_report_data(report_data, report_type,
                                          export_format).export_data,
                   outcome |->
                       export_report_data(report_data, report_type,
                                          export_format).outcome]
    /\ UNCHANGED <<session_dir, now, sessions, pricing_data, last, calls>>

\* cli.py lines 411-482: the export command.  Without report data it exits
\* with status 1; an exception of the export is reported and exits with 1.
Export(report_type, export_format, position, attribution) ==
    /\ ret = NoCall
    /\ LET report == generate_report(report_type, sessions, pricing_data,
                                     date_today(now), attribution, position)
       IN  IF report = None
           THEN ret' = [op |-> "export",
                        report_type |-> report_type,
                        export_format |-> export_format,
                        position |-> position,
                        exported |-> FALSE,
                        exit_code |-> 1]
           ELSE LET done == export_report_data(Val(report), report_type, export_format)
                IN  ret' = [op |-> "export",
                            report_type |-> report_type,
                            export_format |-> export_format,
                            position |-> position,
                            exported |-> TRUE,
                            report_data |-> Val(report),
                            export_data |-> done.export_data,
                            outcome |-> done.outcome,
                            exit_code |-> IF done.outcome.kind = "raise" THEN 1 ELSE 0]
    /\ UNCHANGED <<session_dir, now, sessions, pricing_data, last, calls>>

\* Inputs of the export: the analyzer's session lists, each session titled.
ExportSession(i, shape) ==
    AnalyzerSession(i, shape) @@ [session_title |-> "title"]

InitExport ==
    /\ session_dir = [exists |-> FALSE, files |-> <<>>]
    /\ now = 0
    /\ \E shapes \in AnalyzerSessionLists :
          sessions = [i \in 1..Len(shapes) |-> ExportSession(i, shapes[i])]
    /\ pricing_data \in [{"gpt"} -> Pricings]
    /\ ret = NoCall
    /\ last = NoCall
    /\ calls = <<>>

NextExport ==
    \/ \E report_type \in ExportChoices, export_format \in ExportFormats,
          position \in 1..MaxAnalyzerSessions, attribution \in MonthAttributions :
          Export(report_type, export_format, position, attribution)
    \/ \E report_type \in ServiceReportTypes, export_format \in ExportFormats,
          position \in 1..MaxAnalyzerSessions, attribution \in MonthAttributions :
          ExportReportData(report_type, export_format, position, attribution)
    \/ Return

SpecExport == InitExport /\ [][NextExport]_vars

\* The extraction of a report type has a branch of its own.
OwnBranch(report_type) ==
    IF report_type = "session" THEN "single_session" ELSE report_type

ExportCalled == ret.op = "export" /\ ret.exported

\* C30: for every report type the export command accepts,
\* _extract_export_data takes the branch of that type and returns a list of
\* flat rows (for a single session, one row per interaction file); the
\* pass-through that returns report_data as it is is reached only for report
\* types the command does not accept.
C30_EveryTypeHasItsBranch ==
    /\ ExportCalled =>
          /\ ret.export_data.branch = OwnBranch(ret.report_type)
          /\ ret.export_data.is_list
          /\ ret.report_type = "session" =>
                Len(ret.export_data.rows) = Len(sessions[ret.position].files)
    /\ (ret.op \in {"export", "export_report_data"} /\ ret.exported) =>
          (ret.export_data.branch = "else" => ret.report_type \notin ExportChoices)

\* What the code does: "session" matches no branch (the single-session branch
\* tests for "single_session"), so the report dictionary is passed through and
\* a CSV export of it fails; the six other types take their branch.
C30_SessionPassedThrough ==
    ExportCalled =>
        IF ret.report_type = "session"
        THEN /\ ret.export_data = ExportAsIs(ret.report_data)
             /\ ret.export_format = "csv" => ret.exit_code = 1
        ELSE /\ ret.export_data.branch = ret.report_type
             /\ ret.export_data.is_list

====
